---- MODULE Spec2Model ----
(***************************************************************************)
(* A model of the H3 cell index codec, the pentagon-aware neighbor step    *)
(* and the grid disk / grid ring traversals of h3-rs.                      *)
(*                                                                         *)
(* A 64-bit H3Index is modelled by its bit fields, most significant first: *)
(*   hb   bit 63          mode  bits 62..59    rsv  bits 58..56            *)
(*   res  bits 55..52     bc    bits 51..45    dig  fifteen 3-bit digits   *)
(* (dig[r] occupies bits 3*(15-r)+2 .. 3*(15-r)).  The getters and setters *)
(* of h3_index.rs become field reads and field updates; the numeric value  *)
(* of an index is recovered by H3Mod where the code needs it.              *)
(***************************************************************************)
EXTENDS Integers, Sequences, FiniteSets, TLC

VARIABLES
    cell,   \* the H3Index the next operation is applied to
    op,     \* the operation applied last ("init" before any)
    arg,    \* its other arguments: [dir, rotations, k], and the edits made
    ret     \* its result: [ok, err, h, rotations, flag, out]

vars == <<cell, op, arg, ret>>

(***************************************************************************)
(* constants.rs, coord_ijk.rs: program constants                           *)
(***************************************************************************)
MAX_H3_RES == 15
NUM_BASE_CELLS == 122
H3_CELL_MODE == 1
H3_DIRECTEDEDGE_MODE == 2
INVALID_BASE_CELL == 127

CenterDigit == 0
KAxesDigit == 1
JAxesDigit == 2
JKAxesDigit == 3
IAxesDigit == 4
IKAxesDigit == 5
IJAxesDigit == 6
InvalidDigit == 7
NUM_DIGITS == InvalidDigit

\* Rotate a digit 60 degrees counter-clockwise.
_rotate60ccw(digit) ==
    CASE digit = KAxesDigit  -> IKAxesDigit
      [] digit = IKAxesDigit -> IAxesDigit
      [] digit = IAxesDigit  -> IJAxesDigit
      [] digit = IJAxesDigit -> JAxesDigit
      [] digit = JAxesDigit  -> JKAxesDigit
      [] digit = JKAxesDigit -> KAxesDigit
      [] OTHER               -> digit

\* Rotate a digit 60 degrees clockwise.
_rotate60cw(digit) ==
    CASE digit = KAxesDigit  -> JKAxesDigit
      [] digit = JKAxesDigit -> JAxesDigit
      [] digit = JAxesDigit  -> IJAxesDigit
      [] digit = IJAxesDigit -> IAxesDigit
      [] digit = IAxesDigit  -> IKAxesDigit
      [] digit = IKAxesDigit -> KAxesDigit
      [] OTHER               -> digit

(***************************************************************************)
(* base_cells.rs and algos.rs: the static tables (0-based in the source,   *)
(* so entry [a][b] of the source is [a + 1][b + 1] here)                   *)
(***************************************************************************)
\* Neighboring base cell in each direction; 127 marks no neighbor.
baseCellNeighbors ==
  << <<0, 1, 5, 2, 4, 3, 8>>,
     <<1, 7, 6, 9, 0, 3, 2>>,
     <<2, 6, 10, 11, 0, 1, 5>>,
     <<3, 13, 1, 7, 4, 12, 0>>,
     <<4, 127, 15, 8, 3, 0, 12>>,
     <<5, 2, 18, 10, 8, 0, 16>>,
     <<6, 14, 11, 17, 1, 9, 2>>,
     <<7, 21, 9, 19, 3, 13, 1>>,
     <<8, 5, 22, 16, 4, 0, 15>>,
     <<9, 19, 14, 20, 1, 7, 6>>,
     <<10, 11, 24, 23, 5, 2, 18>>,
     <<11, 17, 23, 25, 2, 6, 10>>,
     <<12, 28, 13, 26, 4, 15, 3>>,
     <<13, 26, 21, 29, 3, 12, 7>>,
     <<14, 127, 17, 27, 9, 20, 6>>,
     <<15, 22, 28, 31, 4, 8, 12>>,
     <<16, 18, 33, 30, 8, 5, 22>>,
     <<17, 11, 14, 6, 35, 25, 27>>,
     <<18, 24, 30, 32, 5, 10, 16>>,
     <<19, 34, 20, 36, 7, 21, 9>>,
     <<20, 14, 19, 9, 40, 27, 36>>,
     <<21, 38, 19, 34, 13, 29, 7>>,
     <<22, 16, 41, 33, 15, 8, 31>>,
     <<23, 24, 11, 10, 39, 37, 25>>,
     <<24, 127, 32, 37, 10, 23, 18>>,
     <<25, 23, 17, 11, 45, 39, 35>>,
     <<26, 42, 29, 43, 12, 28, 13>>,
     <<27, 40, 35, 46, 14, 20, 17>>,
     <<28, 31, 42, 44, 12, 15, 26>>,
     <<29, 43, 38, 47, 13, 26, 21>>,
     <<30, 32, 48, 50, 16, 18, 33>>,
     <<31, 41, 44, 53, 15, 22, 28>>,
     <<32, 30, 24, 18, 52, 50, 37>>,
     <<33, 30, 49, 48, 22, 16, 41>>,
     <<34, 19, 38, 21, 54, 36, 51>>,
     <<35, 46, 45, 56, 17, 27, 25>>,
     <<36, 20, 34, 19, 55, 40, 54>>,
     <<37, 39, 52, 57, 24, 23, 32>>,
     <<38, 127, 34, 51, 29, 47, 21>>,
     <<39, 37, 25, 23, 59, 57, 45>>,
     <<40, 27, 36, 20, 60, 46, 55>>,
     <<41, 49, 53, 61, 22, 33, 31>>,
     <<42, 58, 43, 62, 28, 44, 26>>,
     <<43, 62, 47, 64, 26, 42, 29>>,
     <<44, 53, 58, 65, 28, 31, 42>>,
     <<45, 39, 35, 25, 63, 59, 56>>,
     <<46, 60, 56, 68, 27, 40, 35>>,
     <<47, 38, 43, 29, 69, 51, 64>>,
     <<48, 49, 30, 33, 67, 66, 50>>,
     <<49, 127, 61, 66, 33, 48, 41>>,
     <<50, 48, 32, 30, 70, 67, 52>>,
     <<51, 69, 54, 71, 38, 47, 34>>,
     <<52, 57, 70, 74, 32, 37, 50>>,
     <<53, 61, 65, 75, 31, 41, 44>>,
     <<54, 71, 55, 73, 34, 51, 36>>,
     <<55, 40, 54, 36, 72, 60, 73>>,
     <<56, 68, 63, 77, 35, 46, 45>>,
     <<57, 59, 74, 78, 37, 39, 52>>,
     <<58, 127, 62, 76, 44, 65, 42>>,
     <<59, 63, 78, 79, 39, 45, 57>>,
     <<60, 72, 68, 80, 40, 55, 46>>,
     <<61, 53, 49, 41, 81, 75, 66>>,
     <<62, 43, 58, 42, 82, 64, 76>>,
     <<63, 127, 56, 45, 79, 59, 77>>,
     <<64, 47, 62, 43, 84, 69, 82>>,
     <<65, 58, 53, 44, 86, 76, 75>>,
     <<66, 67, 81, 85, 49, 48, 61>>,
     <<67, 66, 50, 48, 87, 85, 70>>,
     <<68, 56, 60, 46, 90, 77, 80>>,
     <<69, 51, 64, 47, 89, 71, 84>>,
     <<70, 67, 52, 50, 83, 87, 74>>,
     <<71, 89, 73, 91, 51, 69, 54>>,
     <<72, 127, 73, 55, 80, 60, 88>>,
     <<73, 91, 72, 88, 54, 71, 55>>,
     <<74, 78, 83, 92, 52, 57, 70>>,
     <<75, 65, 61, 53, 94, 86, 81>>,
     <<76, 86, 82, 96, 58, 65, 62>>,
     <<77, 63, 68, 56, 93, 79, 90>>,
     <<78, 74, 59, 57, 95, 92, 79>>,
     <<79, 78, 63, 59, 93, 95, 77>>,
     <<80, 68, 72, 60, 99, 90, 88>>,
     <<81, 85, 94, 101, 61, 66, 75>>,
     <<82, 96, 84, 98, 62, 76, 64>>,
     <<83, 127, 74, 70, 100, 87, 92>>,
     <<84, 69, 82, 64, 97, 89, 98>>,
     <<85, 87, 101, 102, 66, 67, 81>>,
     <<86, 76, 75, 65, 104, 96, 94>>,
     <<87, 83, 102, 100, 67, 70, 85>>,
     <<88, 72, 91, 73, 99, 80, 105>>,
     <<89, 97, 91, 103, 69, 84, 71>>,
     <<90, 77, 80, 68, 106, 93, 99>>,
     <<91, 73, 89, 71, 105, 88, 103>>,
     <<92, 83, 78, 74, 108, 100, 95>>,
     <<93, 79, 90, 77, 109, 95, 106>>,
     <<94, 86, 81, 75, 107, 104, 101>>,
     <<95, 92, 79, 78, 109, 108, 93>>,
     <<96, 104, 98, 110, 76, 86, 82>>,
     <<97, 127, 98, 84, 103, 89, 111>>,
     <<98, 110, 97, 111, 82, 96, 84>>,
     <<99, 80, 105, 88, 106, 90, 113>>,
     <<100, 102, 83, 87, 108, 114, 92>>,
     <<101, 102, 107, 112, 81, 85, 94>>,
     <<102, 101, 87, 85, 114, 112, 100>>,
     <<103, 91, 97, 89, 116, 105, 111>>,
     <<104, 107, 110, 115, 86, 94, 96>>,
     <<105, 88, 103, 91, 113, 99, 116>>,
     <<106, 93, 99, 90, 117, 109, 113>>,
     <<107, 127, 101, 94, 115, 104, 112>>,
     <<108, 100, 95, 92, 118, 114, 109>>,
     <<109, 108, 93, 95, 117, 118, 106>>,
     <<110, 98, 104, 96, 119, 111, 115>>,
     <<111, 97, 110, 98, 116, 103, 119>>,
     <<112, 107, 102, 101, 120, 115, 114>>,
     <<113, 99, 116, 105, 117, 106, 121>>,
     <<114, 112, 100, 102, 118, 120, 108>>,
     <<115, 110, 107, 104, 120, 119, 112>>,
     <<116, 103, 119, 111, 113, 105, 121>>,
     <<117, 127, 109, 118, 113, 121, 106>>,
     <<118, 120, 108, 114, 117, 121, 109>>,
     <<119, 111, 115, 110, 121, 116, 120>>,
     <<120, 115, 114, 112, 121, 119, 118>>,
     <<121, 116, 120, 119, 117, 113, 118>> >>

\* Number of 60 degree ccw rotations into the neighbor base cell; -1 marks no neighbor.
baseCellNeighbor60CCWRots ==
  << <<0, 5, 0, 0, 1, 5, 1>>,
     <<0, 0, 1, 0, 1, 0, 1>>,
     <<0, 0, 0, 0, 0, 5, 0>>,
     <<0, 5, 0, 0, 2, 5, 1>>,
     <<0, -1, 1, 0, 3, 4, 2>>,
     <<0, 0, 1, 0, 1, 0, 1>>,
     <<0, 0, 0, 3, 5, 5, 0>>,
     <<0, 0, 0, 0, 0, 5, 0>>,
     <<0, 5, 0, 0, 0, 5, 1>>,
     <<0, 0, 1, 3, 0, 0, 1>>,
     <<0, 0, 1, 3, 0, 0, 1>>,
     <<0, 3, 3, 3, 0, 0, 0>>,
     <<0, 5, 0, 0, 3, 5, 1>>,
     <<0, 0, 1, 0, 1, 0, 1>>,
     <<0, -1, 3, 0, 5, 2, 0>>,
     <<0, 5, 0, 0, 4, 5, 1>>,
     <<0, 0, 0, 0, 0, 5, 0>>,
     <<0, 3, 3, 3, 3, 0, 3>>,
     <<0, 0, 0, 3, 5, 5, 0>>,
     <<0, 3, 3, 3, 0, 0, 0>>,
     <<0, 3, 3, 3, 0, 3, 0>>,
     <<0, 0, 0, 3, 5, 5, 0>>,
     <<0, 0, 1, 0, 1, 0, 1>>,
     <<0, 3, 3, 3, 0, 3, 0>>,
     <<0, -1, 3, 0, 5, 2, 0>>,
     <<0, 0, 0, 3, 0, 0, 3>>,
     <<0, 0, 0, 0, 0, 5, 0>>,
     <<0, 3, 0, 0, 0, 3, 3>>,
     <<0, 0, 1, 0, 1, 0, 1>>,
     <<0, 0, 1, 3, 0, 0, 1>>,
     <<0, 3, 3, 3, 0, 0, 0>>,
     <<0, 0, 0, 0, 0, 5, 0>>,
     <<0, 3, 3, 3, 3, 0, 3>>,
     <<0, 0, 1, 3, 0, 0, 1>>,
     <<0, 3, 3, 3, 3, 0, 3>>,
     <<0, 0, 3, 0, 3, 0, 3>>,
     <<0, 0, 0, 3, 0, 0, 3>>,
     <<0, 3, 0, 0, 0, 3, 3>>,
     <<0, -1, 3, 0, 5, 2, 0>>,
     <<0, 3, 0, 0, 3, 3, 0>>,
     <<0, 3, 0, 0, 3, 3, 0>>,
     <<0, 0, 0, 3, 5, 5, 0>>,
     <<0, 0, 0, 3, 5, 5, 0>>,
     <<0, 3, 3, 3, 0, 0, 0>>,
     <<0, 0, 1, 3, 0, 0, 1>>,
     <<0, 0, 3, 0, 0, 3, 3>>,
     <<0, 0, 0, 3, 0, 3, 0>>,
     <<0, 3, 3, 3, 0, 3, 0>>,
     <<0, 3, 3, 3, 0, 3, 0>>,
     <<0, -1, 3, 0, 5, 2, 0>>,
     <<0, 0, 0, 3, 0, 0, 3>>,
     <<0, 3, 0, 0, 0, 3, 3>>,
     <<0, 0, 3, 0, 3, 0, 3>>,
     <<0, 3, 3, 3, 0, 0, 0>>,
     <<0, 0, 3, 0, 3, 0, 3>>,
     <<0, 0, 3, 0, 0, 3, 3>>,
     <<0, 3, 3, 3, 0, 0, 3>>,
     <<0, 0, 0, 3, 0, 3, 0>>,
     <<0, -1, 3, 0, 5, 2, 0>>,
     <<0, 3, 3, 3, 3, 3, 0>>,
     <<0, 3, 3, 3, 3, 3, 0>>,
     <<0, 3, 3, 3, 3, 0, 3>>,
     <<0, 3, 3, 3, 3, 0, 3>>,
     <<0, -1, 3, 0, 5, 2, 0>>,
     <<0, 0, 0, 3, 0, 0, 3>>,
     <<0, 3, 3, 3, 0, 3, 0>>,
     <<0, 3, 0, 0, 0, 3, 3>>,
     <<0, 3, 0, 0, 3, 3, 0>>,
     <<0, 3, 3, 3, 0, 0, 0>>,
     <<0, 3, 0, 0, 3, 3, 0>>,
     <<0, 0, 3, 0, 0, 3, 3>>,
     <<0, 0, 0, 3, 0, 3, 0>>,
     <<0, -1, 3, 0, 5, 2, 0>>,
     <<0, 3, 3, 3, 0, 0, 3>>,
     <<0, 3, 3, 3, 0, 0, 3>>,
     <<0, 0, 0, 3, 0, 0, 3>>,
     <<0, 3, 0, 0, 0, 3, 3>>,
     <<0, 0, 0, 3, 0, 5, 0>>,
     <<0, 3, 3, 3, 0, 0, 0>>,
     <<0, 0, 1, 3, 1, 0, 1>>,
     <<0, 0, 1, 3, 1, 0, 1>>,
     <<0, 0, 3, 0, 3, 0, 3>>,
     <<0, 0, 3, 0, 3, 0, 3>>,
     <<0, -1, 3, 0, 5, 2, 0>>,
     <<0, 0, 3, 0, 0, 3, 3>>,
     <<0, 0, 0, 3, 0, 3, 0>>,
     <<0, 3, 0, 0, 3, 3, 0>>,
     <<0, 3, 3, 3, 3, 3, 0>>,
     <<0, 0, 0, 3, 0, 5, 0>>,
     <<0, 3, 3, 3, 3, 3, 0>>,
     <<0, 0, 0, 0, 0, 0, 1>>,
     <<0, 3, 3, 3, 0, 0, 0>>,
     <<0, 0, 0, 3, 0, 5, 0>>,
     <<0, 5, 0, 0, 5, 5, 0>>,
     <<0, 0, 3, 0, 0, 3, 3>>,
     <<0, 0, 0, 0, 0, 0, 1>>,
     <<0, 0, 0, 3, 0, 3, 0>>,
     <<0, -1, 3, 0, 5, 2, 0>>,
     <<0, 3, 3, 3, 0, 0, 3>>,
     <<0, 5, 0, 0, 5, 5, 0>>,
     <<0, 0, 1, 3, 1, 0, 1>>,
     <<0, 3, 3, 3, 0, 0, 3>>,
     <<0, 3, 3, 3, 0, 0, 0>>,
     <<0, 0, 1, 3, 1, 0, 1>>,
     <<0, 3, 3, 3, 3, 3, 0>>,
     <<0, 0, 0, 0, 0, 0, 1>>,
     <<0, 0, 1, 0, 3, 5, 1>>,
     <<0, -1, 3, 0, 5, 2, 0>>,
     <<0, 5, 0, 0, 5, 5, 0>>,
     <<0, 0, 1, 0, 4, 5, 1>>,
     <<0, 3, 3, 3, 0, 0, 0>>,
     <<0, 0, 0, 3, 0, 5, 0>>,
     <<0, 0, 0, 3, 0, 5, 0>>,
     <<0, 0, 1, 0, 2, 5, 1>>,
     <<0, 0, 0, 0, 0, 0, 1>>,
     <<0, 0, 1, 3, 1, 0, 1>>,
     <<0, 5, 0, 0, 5, 5, 0>>,
     <<0, -1, 1, 0, 3, 4, 2>>,
     <<0, 0, 1, 0, 0, 5, 1>>,
     <<0, 0, 0, 0, 0, 0, 1>>,
     <<0, 5, 0, 0, 5, 5, 0>>,
     <<0, 0, 1, 0, 1, 5, 1>> >>

\* Per base cell: <<home face, home i, home j, home k, isPentagon, cwOffsetPent[0], cwOffsetPent[1]>>.
baseCellData ==
  << <<1, 1, 0, 0, 0, 0, 0>>,
     <<2, 1, 1, 0, 0, 0, 0>>,
     <<1, 0, 0, 0, 0, 0, 0>>,
     <<2, 1, 0, 0, 0, 0, 0>>,
     <<0, 2, 0, 0, 1, -1, -1>>,
     <<1, 1, 1, 0, 0, 0, 0>>,
     <<1, 0, 0, 1, 0, 0, 0>>,
     <<2, 0, 0, 0, 0, 0, 0>>,
     <<0, 1, 0, 0, 0, 0, 0>>,
     <<2, 0, 1, 0, 0, 0, 0>>,
     <<1, 0, 1, 0, 0, 0, 0>>,
     <<1, 0, 1, 1, 0, 0, 0>>,
     <<3, 1, 0, 0, 0, 0, 0>>,
     <<3, 1, 1, 0, 0, 0, 0>>,
     <<11, 2, 0, 0, 1, 2, 6>>,
     <<4, 1, 0, 0, 0, 0, 0>>,
     <<0, 0, 0, 0, 0, 0, 0>>,
     <<6, 0, 1, 0, 0, 0, 0>>,
     <<0, 0, 0, 1, 0, 0, 0>>,
     <<2, 0, 1, 1, 0, 0, 0>>,
     <<7, 0, 0, 1, 0, 0, 0>>,
     <<2, 0, 0, 1, 0, 0, 0>>,
     <<0, 1, 1, 0, 0, 0, 0>>,
     <<6, 0, 0, 1, 0, 0, 0>>,
     <<10, 2, 0, 0, 1, 1, 5>>,
     <<6, 0, 0, 0, 0, 0, 0>>,
     <<3, 0, 0, 0, 0, 0, 0>>,
     <<11, 1, 0, 0, 0, 0, 0>>,
     <<4, 1, 1, 0, 0, 0, 0>>,
     <<3, 0, 1, 0, 0, 0, 0>>,
     <<0, 0, 1, 1, 0, 0, 0>>,
     <<4, 0, 0, 0, 0, 0, 0>>,
     <<5, 0, 1, 0, 0, 0, 0>>,
     <<0, 0, 1, 0, 0, 0, 0>>,
     <<7, 0, 1, 0, 0, 0, 0>>,
     <<11, 1, 1, 0, 0, 0, 0>>,
     <<7, 0, 0, 0, 0, 0, 0>>,
     <<10, 1, 0, 0, 0, 0, 0>>,
     <<12, 2, 0, 0, 1, 3, 7>>,
     <<6, 1, 0, 1, 0, 0, 0>>,
     <<7, 1, 0, 1, 0, 0, 0>>,
     <<4, 0, 0, 1, 0, 0, 0>>,
     <<3, 0, 0, 1, 0, 0, 0>>,
     <<3, 0, 1, 1, 0, 0, 0>>,
     <<4, 0, 1, 0, 0, 0, 0>>,
     <<6, 1, 0, 0, 0, 0, 0>>,
     <<11, 0, 0, 0, 0, 0, 0>>,
     <<8, 0, 0, 1, 0, 0, 0>>,
     <<5, 0, 0, 1, 0, 0, 0>>,
     <<14, 2, 0, 0, 1, 0, 9>>,
     <<5, 0, 0, 0, 0, 0, 0>>,
     <<12, 1, 0, 0, 0, 0, 0>>,
     <<10, 1, 1, 0, 0, 0, 0>>,
     <<4, 0, 1, 1, 0, 0, 0>>,
     <<12, 1, 1, 0, 0, 0, 0>>,
     <<7, 1, 0, 0, 0, 0, 0>>,
     <<11, 0, 1, 0, 0, 0, 0>>,
     <<10, 0, 0, 0, 0, 0, 0>>,
     <<13, 2, 0, 0, 1, 4, 8>>,
     <<10, 0, 0, 1, 0, 0, 0>>,
     <<11, 0, 0, 1, 0, 0, 0>>,
     <<9, 0, 1, 0, 0, 0, 0>>,
     <<8, 0, 1, 0, 0, 0, 0>>,
     <<6, 2, 0, 0, 1, 11, 15>>,
     <<8, 0, 0, 0, 0, 0, 0>>,
     <<9, 0, 0, 1, 0, 0, 0>>,
     <<14, 1, 0, 0, 0, 0, 0>>,
     <<5, 1, 0, 1, 0, 0, 0>>,
     <<16, 0, 1, 1, 0, 0, 0>>,
     <<8, 1, 0, 1, 0, 0, 0>>,
     <<5, 1, 0, 0, 0, 0, 0>>,
     <<12, 0, 0, 0, 0, 0, 0>>,
     <<7, 2, 0, 0, 1, 12, 16>>,
     <<12, 0, 1, 0, 0, 0, 0>>,
     <<10, 0, 1, 0, 0, 0, 0>>,
     <<9, 0, 0, 0, 0, 0, 0>>,
     <<13, 1, 0, 0, 0, 0, 0>>,
     <<16, 0, 0, 1, 0, 0, 0>>,
     <<15, 0, 1, 1, 0, 0, 0>>,
     <<15, 0, 1, 0, 0, 0, 0>>,
     <<16, 0, 1, 0, 0, 0, 0>>,
     <<14, 1, 1, 0, 0, 0, 0>>,
     <<13, 1, 1, 0, 0, 0, 0>>,
     <<5, 2, 0, 0, 1, 10, 19>>,
     <<8, 1, 0, 0, 0, 0, 0>>,
     <<14, 0, 0, 0, 0, 0, 0>>,
     <<9, 1, 0, 1, 0, 0, 0>>,
     <<14, 0, 0, 1, 0, 0, 0>>,
     <<17, 0, 0, 1, 0, 0, 0>>,
     <<12, 0, 0, 1, 0, 0, 0>>,
     <<16, 0, 0, 0, 0, 0, 0>>,
     <<17, 0, 1, 1, 0, 0, 0>>,
     <<15, 0, 0, 1, 0, 0, 0>>,
     <<16, 1, 0, 1, 0, 0, 0>>,
     <<9, 1, 0, 0, 0, 0, 0>>,
     <<15, 0, 0, 0, 0, 0, 0>>,
     <<13, 0, 0, 0, 0, 0, 0>>,
     <<8, 2, 0, 0, 1, 13, 17>>,
     <<13, 0, 1, 0, 0, 0, 0>>,
     <<17, 1, 0, 1, 0, 0, 0>>,
     <<19, 0, 1, 0, 0, 0, 0>>,
     <<14, 0, 1, 0, 0, 0, 0>>,
     <<19, 0, 1, 1, 0, 0, 0>>,
     <<17, 0, 1, 0, 0, 0, 0>>,
     <<13, 0, 0, 1, 0, 0, 0>>,
     <<17, 0, 0, 0, 0, 0, 0>>,
     <<16, 1, 0, 0, 0, 0, 0>>,
     <<9, 2, 0, 0, 1, 14, 18>>,
     <<15, 1, 0, 1, 0, 0, 0>>,
     <<15, 1, 0, 0, 0, 0, 0>>,
     <<18, 0, 1, 1, 0, 0, 0>>,
     <<18, 0, 0, 1, 0, 0, 0>>,
     <<19, 0, 0, 1, 0, 0, 0>>,
     <<17, 1, 0, 0, 0, 0, 0>>,
     <<19, 0, 0, 0, 0, 0, 0>>,
     <<18, 0, 1, 0, 0, 0, 0>>,
     <<18, 1, 0, 1, 0, 0, 0>>,
     <<19, 2, 0, 0, 1, -1, -1>>,
     <<19, 1, 0, 0, 0, 0, 0>>,
     <<18, 0, 0, 0, 0, 0, 0>>,
     <<19, 1, 0, 1, 0, 0, 0>>,
     <<18, 1, 0, 0, 0, 0, 0>> >>

\* NEW_DIGIT_II[current digit][direction].
NEW_DIGIT_II ==
  << <<0, 1, 2, 3, 4, 5, 6>>,
     <<1, 4, 3, 6, 5, 2, 0>>,
     <<2, 3, 1, 4, 6, 0, 5>>,
     <<3, 6, 4, 5, 0, 1, 2>>,
     <<4, 5, 6, 0, 2, 3, 1>>,
     <<5, 2, 0, 1, 3, 6, 4>>,
     <<6, 0, 5, 2, 1, 4, 3>> >>

\* NEW_ADJUSTMENT_II[current digit][direction].
NEW_ADJUSTMENT_II ==
  << <<0, 0, 0, 0, 0, 0, 0>>,
     <<0, 1, 0, 1, 0, 5, 0>>,
     <<0, 0, 2, 3, 0, 0, 2>>,
     <<0, 1, 3, 3, 0, 0, 0>>,
     <<0, 0, 0, 0, 4, 4, 6>>,
     <<0, 5, 0, 0, 4, 5, 0>>,
     <<0, 0, 2, 0, 6, 0, 6>> >>

\* NEW_DIGIT_III[current digit][direction].
NEW_DIGIT_III ==
  << <<0, 1, 2, 3, 4, 5, 6>>,
     <<1, 2, 3, 4, 5, 6, 0>>,
     <<2, 3, 4, 5, 6, 0, 1>>,
     <<3, 4, 5, 6, 0, 1, 2>>,
     <<4, 5, 6, 0, 1, 2, 3>>,
     <<5, 6, 0, 1, 2, 3, 4>>,
     <<6, 0, 1, 2, 3, 4, 5>> >>

\* NEW_ADJUSTMENT_III[current digit][direction].
NEW_ADJUSTMENT_III ==
  << <<0, 0, 0, 0, 0, 0, 0>>,
     <<0, 1, 0, 3, 0, 1, 0>>,
     <<0, 0, 2, 2, 0, 0, 6>>,
     <<0, 3, 2, 3, 0, 0, 0>>,
     <<0, 0, 0, 0, 4, 5, 4>>,
     <<0, 1, 0, 0, 5, 5, 0>>,
     <<0, 0, 6, 0, 4, 0, 6>> >>

(***************************************************************************)
(* base_cells.rs: predicates on base cells                                 *)
(***************************************************************************)
_isBaseCellPentagon(baseCell) ==
    IF baseCell < 0 \/ baseCell >= NUM_BASE_CELLS
    THEN FALSE
    ELSE baseCellData[baseCell + 1][5] # 0

_isBaseCellPolarPentagon(baseCell) == baseCell = 4 \/ baseCell = 117

\* A variant of _baseCellIsCwOffset that tests the first of the two clockwise
\* offset faces only.
_baseCellIsCwOffset_firstFaceOnly(baseCell, testFace) ==
    baseCellData[baseCell + 1][6] = testFace

_baseCellIsCwOffset(baseCell, testFace) ==
    \/ baseCellData[baseCell + 1][6] = testFace
    \/ baseCellData[baseCell + 1][7] = testFace

\* baseCellData[bc].homeFijk.face
homeFace(baseCell) == baseCellData[baseCell + 1][1]

(***************************************************************************)
(* h3_index.rs: the index codec                                            *)
(***************************************************************************)
\* H3 index with mode 0, res 0, base cell 0, and 7 for all index digits
\* (35184372088831 = 2^45 - 1).
H3_INIT ==
    [hb |-> 0, mode |-> 0, rsv |-> 0, res |-> 0, bc |-> 0,
     dig |-> [r \in 1..MAX_H3_RES |-> InvalidDigit]]

\* The index 0.
H3_NULL ==
    [hb |-> 0, mode |-> 0, rsv |-> 0, res |-> 0, bc |-> 0,
     dig |-> [r \in 1..MAX_H3_RES |-> 0]]

H3_GET_HIGH_BIT(h) == h.hb
H3_GET_MODE(h) == h.mode
H3_GET_RESERVED_BITS(h) == h.rsv
H3_GET_RESOLUTION(h) == h.res
H3_GET_BASE_CELL(h) == h.bc
H3_GET_INDEX_DIGIT(h, r) == h.dig[r]

H3_SET_HIGH_BIT(h, v) == [h EXCEPT !.hb = v]
H3_SET_MODE(h, v) == [h EXCEPT !.mode = v]
H3_SET_RESERVED_BITS(h, v) == [h EXCEPT !.rsv = v]
H3_SET_RESOLUTION(h, v) == [h EXCEPT !.res = v]
H3_SET_BASE_CELL(h, v) == [h EXCEPT !.bc = v]
H3_SET_INDEX_DIGIT(h, r, digit) == [h EXCEPT !.dig[r] = digit]

getResolution(h) == H3_GET_RESOLUTION(h)

\* The 64-bit value of h modulo m, by Horner's rule over the fields
\* (every intermediate stays below 128 * m).
RECURSIVE DigitsMod(_, _, _, _)
DigitsMod(h, r, acc, m) ==
    IF r > MAX_H3_RES THEN acc
    ELSE DigitsMod(h, r + 1, (acc * 8 + h.dig[r]) % m, m)

H3Mod(h, m) ==
    LET a1 == h.hb % m
        a2 == (a1 * 16 + h.mode) % m
        a3 == (a2 * 8 + h.rsv) % m
        a4 == (a3 * 16 + h.res) % m
        a5 == (a4 * 128 + h.bc) % m
    IN  DigitsMod(h, 1, a5, m)

RECURSIVE isValidCellDigits(_, _, _)
\* A variant of the digit loop of isValidCell that lacks the check of the
\* deleted sub-sequence of a pentagon.
isValidCellDigits_noPentagonRule(h, r, found) ==
    IF r > H3_GET_RESOLUTION(h) THEN TRUE
    ELSE IF H3_GET_INDEX_DIGIT(h, r) < CenterDigit
            \/ H3_GET_INDEX_DIGIT(h, r) >= NUM_DIGITS
    THEN FALSE
    ELSE isValidCellDigits(h, r + 1, found)

\* The digit loop of isValidCell, from position r with the flag found.
isValidCellDigits(h, r, found) ==
    IF r > H3_GET_RESOLUTION(h) THEN TRUE
    ELSE LET digit == H3_GET_INDEX_DIGIT(h, r)
             first == ~found /\ digit # CenterDigit
         IN  IF first /\ _isBaseCellPentagon(H3_GET_BASE_CELL(h))
                      /\ digit = KAxesDigit
             THEN FALSE
             ELSE IF digit < CenterDigit \/ digit >= NUM_DIGITS
             THEN FALSE
             ELSE isValidCellDigits(h, r + 1, found \/ first)

\* The trailing loop of isValidCell: every digit past the resolution is 7.
RECURSIVE isValidCellTail(_, _)
isValidCellTail(h, r) ==
    IF r > MAX_H3_RES THEN TRUE
    ELSE IF H3_GET_INDEX_DIGIT(h, r) # InvalidDigit THEN FALSE
    ELSE isValidCellTail(h, r + 1)

isValidCell(h) ==
    IF H3_GET_HIGH_BIT(h) # 0 THEN FALSE
    ELSE IF H3_GET_MODE(h) # H3_CELL_MODE THEN FALSE
    ELSE IF H3_GET_RESERVED_BITS(h) # 0 THEN FALSE
    ELSE IF H3_GET_BASE_CELL(h) < 0 \/ H3_GET_BASE_CELL(h) >= NUM_BASE_CELLS
    THEN FALSE
    ELSE IF H3_GET_RESOLUTION(h) < 0 \/ H3_GET_RESOLUTION(h) > MAX_H3_RES
    THEN FALSE
    ELSE IF ~isValidCellDigits(h, 1, FALSE) THEN FALSE
    ELSE isValidCellTail(h, H3_GET_RESOLUTION(h) + 1)

\* setH3Index: an index of the given resolution and base cell with every
\* digit 1..res set to initDigit.
setH3Index(res, baseCell, initDigit) ==
    LET h1 == H3_SET_MODE(H3_INIT, H3_CELL_MODE)
        h2 == H3_SET_RESOLUTION(h1, res)
        h3 == H3_SET_BASE_CELL(h2, baseCell)
    IN  [h3 EXCEPT !.dig =
            [r \in 1..MAX_H3_RES |-> IF r <= res THEN initDigit ELSE h3.dig[r]]]

isResolutionClassIII(res) == (res % 2) # 0

\* The first non-zero digit among positions 1..res, or 0.
RECURSIVE LeadingFrom(_, _)
LeadingFrom(h, r) ==
    IF r > H3_GET_RESOLUTION(h) THEN CenterDigit
    ELSE IF H3_GET_INDEX_DIGIT(h, r) # CenterDigit
    THEN H3_GET_INDEX_DIGIT(h, r)
    ELSE LeadingFrom(h, r + 1)

_h3LeadingNonZeroDigit(h) == LeadingFrom(h, 1)

isPentagon(h) ==
    /\ _isBaseCellPentagon(H3_GET_BASE_CELL(h))
    /\ _h3LeadingNonZeroDigit(h) = CenterDigit

\* Rotate every digit 1..res 60 degrees counter-clockwise.
_h3Rotate60ccw(h) ==
    [h EXCEPT !.dig = [r \in 1..MAX_H3_RES |->
        IF r <= H3_GET_RESOLUTION(h) THEN _rotate60ccw(h.dig[r]) ELSE h.dig[r]]]

\* Rotate every digit 1..res 60 degrees clockwise.
_h3Rotate60cw(h) ==
    [h EXCEPT !.dig = [r \in 1..MAX_H3_RES |->
        IF r <= H3_GET_RESOLUTION(h) THEN _rotate60cw(h.dig[r]) ELSE h.dig[r]]]

\* The loop of _h3RotatePent60ccw from position r.
RECURSIVE RotatePentCcwFrom(_, _, _)
RotatePentCcwFrom(h, r, found) ==
    IF r > H3_GET_RESOLUTION(h) THEN h
    ELSE LET h1 == H3_SET_INDEX_DIGIT(h, r, _rotate60ccw(H3_GET_INDEX_DIGIT(h, r)))
             first == ~found /\ H3_GET_INDEX_DIGIT(h1, r) # 0
             h2 == IF first /\ _h3LeadingNonZeroDigit(h1) = KAxesDigit
                   THEN _h3Rotate60ccw(h1) ELSE h1
         IN  RotatePentCcwFrom(h2, r + 1, found \/ first)

\* The rotation without the adjustment for the deleted k-axes sequence.
_h3RotatePent60ccw_noAdjust(h) == _h3Rotate60ccw(h)

_h3RotatePent60ccw(h) == RotatePentCcwFrom(h, 1, FALSE)

\* The loop of _h3RotatePent60cw from position r.
RECURSIVE RotatePentCwFrom(_, _, _)
RotatePentCwFrom(h, r, found) ==
    IF r > H3_GET_RESOLUTION(h) THEN h
    ELSE LET h1 == H3_SET_INDEX_DIGIT(h, r, _rotate60cw(H3_GET_INDEX_DIGIT(h, r)))
             first == ~found /\ H3_GET_INDEX_DIGIT(h1, r) # 0
             h2 == IF first /\ _h3LeadingNonZeroDigit(h1) = KAxesDigit
                   THEN _h3Rotate60cw(h1) ELSE h1
         IN  RotatePentCwFrom(h2, r + 1, found \/ first)

_h3RotatePent60cw(h) == RotatePentCwFrom(h, 1, FALSE)

(***************************************************************************)
(* algos.rs: neighbor with rotation                                        *)
(***************************************************************************)
\* A variant of DIRECTIONS that lists the sides clockwise.
DIRECTIONS_clockwise ==
    <<JAxesDigit, IJAxesDigit, IAxesDigit, IKAxesDigit, KAxesDigit, JKAxesDigit>>

\* Directions used for traversing a hexagonal ring counterclockwise.
DIRECTIONS ==
    <<JAxesDigit, JKAxesDigit, KAxesDigit, IKAxesDigit, IAxesDigit, IJAxesDigit>>

\* Direction used for traversing to the next outward hexagonal ring.
NEXT_RING_DIRECTION == IAxesDigit

\* Results of h3NeighborRotations: the new index and the value left in
\* *rotations; branch names the pentagon adjustment that was taken.
NeighborOk(h, rotations, branch) ==
    [ok |-> TRUE, err |-> "", h |-> h, rotations |-> rotations, branch |-> branch]

NeighborErr(e, rotations, branch) ==
    [ok |-> FALSE, err |-> e, h |-> H3_NULL, rotations |-> rotations,
     branch |-> branch]

\* for _i in 0..n { dir = _rotate60ccw(dir) }
RECURSIVE RotateDirCcwTimes(_, _)
RotateDirCcwTimes(dir, n) ==
    IF n <= 0 THEN dir ELSE RotateDirCcwTimes(_rotate60ccw(dir), n - 1)

\* for _i in 0..n { current = _h3Rotate60ccw(current) }
RECURSIVE Rotate60ccwTimes(_, _)
Rotate60ccwTimes(h, n) ==
    IF n <= 0 THEN h ELSE Rotate60ccwTimes(_h3Rotate60ccw(h), n - 1)

\* for _i in 0..n { current = _h3RotatePent60ccw(current) }
RECURSIVE RotatePent60ccwTimes(_, _)
RotatePent60ccwTimes(h, n) ==
    IF n <= 0 THEN h ELSE RotatePent60ccwTimes(_h3RotatePent60ccw(h), n - 1)

\* The digit-adjusting loop of h3NeighborRotations, entered with the
\* position r (r = -1 is the base cell level).
RECURSIVE NeighborDigits(_, _, _, _, _)
NeighborDigits(current, dir, r, oldBaseCell, rotations) ==
    IF r = -1
    THEN LET c1 == H3_SET_BASE_CELL(current,
                       baseCellNeighbors[oldBaseCell + 1][dir + 1])
         IN  IF H3_GET_BASE_CELL(c1) = INVALID_BASE_CELL
             THEN \* the deleted k vertex at the base cell level
                  [err |-> "",
                   cur |-> _h3Rotate60ccw(H3_SET_BASE_CELL(c1,
                              baseCellNeighbors[oldBaseCell + 1][IKAxesDigit + 1])),
                   newRotations |->
                       baseCellNeighbor60CCWRots[oldBaseCell + 1][IKAxesDigit + 1],
                   rotations |-> rotations + 1]
             ELSE [err |-> "", cur |-> c1,
                   newRotations |->
                       baseCellNeighbor60CCWRots[oldBaseCell + 1][dir + 1],
                   rotations |-> rotations]
    ELSE LET oldDigit == H3_GET_INDEX_DIGIT(current, r + 1)
         IN  IF oldDigit = InvalidDigit
             THEN [err |-> "CellInvalid", cur |-> current, newRotations |-> 0,
                   rotations |-> rotations]
             ELSE LET newDigit == IF isResolutionClassIII(r + 1)
                                  THEN NEW_DIGIT_II[oldDigit + 1][dir + 1]
                                  ELSE NEW_DIGIT_III[oldDigit + 1][dir + 1]
                      nextDir == IF isResolutionClassIII(r + 1)
                                 THEN NEW_ADJUSTMENT_II[oldDigit + 1][dir + 1]
                                 ELSE NEW_ADJUSTMENT_III[oldDigit + 1][dir + 1]
                      c1 == H3_SET_INDEX_DIGIT(current, r + 1, newDigit)
                  IN  IF nextDir # CenterDigit
                      THEN NeighborDigits(c1, nextDir, r - 1, oldBaseCell, rotations)
                      ELSE [err |-> "", cur |-> c1, newRotations |-> 0,
                            rotations |-> rotations]

\* A variant of NeighborPentDone that leaves the sum of the rotation counts
\* unreduced.
NeighborPentDone_noModulo(c3, rot2, newRotations, crossed, oldBaseCell, newBaseCell, alreadyAdjustedKSubsequence, branch) ==
    NeighborOk(c3,
        ( IF ~crossed THEN rot2
          ELSE IF _isBaseCellPolarPentagon(newBaseCell)
          THEN IF /\ oldBaseCell # 118
                  /\ oldBaseCell # 8
                  /\ _h3LeadingNonZeroDigit(c3) # JKAxesDigit
               THEN rot2 + 1 ELSE rot2
          ELSE IF /\ _h3LeadingNonZeroDigit(c3) = IKAxesDigit
                  /\ alreadyAdjustedKSubsequence = 0
               THEN rot2 + 1 ELSE rot2 ) + newRotations,
        branch)

\* h3NeighborRotations, end: the rotation count adjusted for the differing
\* orientation of the base cells, current rotated into the pentagon's system.
NeighborPentDone(c3, rot2, newRotations, crossed, oldBaseCell, newBaseCell, alreadyAdjustedKSubsequence, branch) ==
    NeighborOk(c3,
        (( IF ~crossed THEN rot2
           ELSE IF _isBaseCellPolarPentagon(newBaseCell)
           THEN IF /\ oldBaseCell # 118
                   /\ oldBaseCell # 8
                   /\ _h3LeadingNonZeroDigit(c3) # JKAxesDigit
                THEN rot2 + 1 ELSE rot2
           ELSE IF /\ _h3LeadingNonZeroDigit(c3) = IKAxesDigit
                   /\ alreadyAdjustedKSubsequence = 0
                THEN rot2 + 1 ELSE rot2 ) + newRotations) % 6,
        branch)

\* h3NeighborRotations, new base cell a pentagon: force the rotation out of
\* the missing k-axes sub-sequence. branch names the case taken.
NeighborPentagon(current, newRotations, rotations, oldBaseCell, oldLeadingDigit, newBaseCell, branch) ==
    CASE branch = "deleted" -> NeighborErr("Pentagon", rotations, branch)
      [] branch = "never"   -> NeighborErr("Failed", rotations, branch)
      [] branch = "none"    ->
            NeighborPentDone(RotatePent60ccwTimes(current, newRotations),
                rotations, newRotations, oldBaseCell # newBaseCell,
                oldBaseCell, newBaseCell, 0, branch)
      [] branch = "cw"      ->
            NeighborPentDone(
                RotatePent60ccwTimes(_h3Rotate60cw(current), newRotations),
                rotations, newRotations, TRUE, oldBaseCell, newBaseCell, 1, branch)
      [] branch = "ccw"     ->
            NeighborPentDone(
                RotatePent60ccwTimes(_h3Rotate60ccw(current), newRotations),
                rotations, newRotations, TRUE, oldBaseCell, newBaseCell, 1, branch)
      [] branch = "jk"      ->
            NeighborPentDone(
                RotatePent60ccwTimes(_h3Rotate60ccw(current), newRotations),
                rotations + 1, newRotations, FALSE, oldBaseCell, newBaseCell, 0,
                branch)
      [] branch = "ik"      ->
            NeighborPentDone(
                RotatePent60ccwTimes(_h3Rotate60cw(current), newRotations),
                rotations + 5, newRotations, FALSE, oldBaseCell, newBaseCell, 0,
                branch)

\* A variant of PentagonBranch that lacks the case of a step from the
\* pentagon's center: it rotates out of the deleted sub-sequence instead.
PentagonBranch_noCenterCase(current, oldBaseCell, oldLeadingDigit, newBaseCell) ==
    IF _h3LeadingNonZeroDigit(current) # KAxesDigit THEN "none"
    ELSE IF oldBaseCell # newBaseCell
    THEN IF _baseCellIsCwOffset(newBaseCell, homeFace(oldBaseCell))
         THEN "cw" ELSE "ccw"
    ELSE IF oldLeadingDigit = IKAxesDigit THEN "ik"
    ELSE "jk"

\* The case of the pentagon adjustment that h3NeighborRotations takes.
PentagonBranch(current, oldBaseCell, oldLeadingDigit, newBaseCell) ==
    IF _h3LeadingNonZeroDigit(current) # KAxesDigit THEN "none"
    ELSE IF oldBaseCell # newBaseCell
    THEN IF _baseCellIsCwOffset(newBaseCell, homeFace(oldBaseCell))
         THEN "cw" ELSE "ccw"
    ELSE IF oldLeadingDigit = CenterDigit THEN "deleted"
    ELSE IF oldLeadingDigit = JKAxesDigit THEN "jk"
    ELSE IF oldLeadingDigit = IKAxesDigit THEN "ik"
    ELSE "never"

\* The part of h3NeighborRotations after the digit loop, w its result.
NeighborFinish(w, oldBaseCell, oldLeadingDigit) ==
    IF w.err # "" THEN NeighborErr(w.err, w.rotations, "none")
    ELSE IF _isBaseCellPentagon(H3_GET_BASE_CELL(w.cur))
    THEN NeighborPentagon(w.cur, w.newRotations, w.rotations, oldBaseCell,
             oldLeadingDigit, H3_GET_BASE_CELL(w.cur),
             PentagonBranch(w.cur, oldBaseCell, oldLeadingDigit,
                            H3_GET_BASE_CELL(w.cur)))
    ELSE NeighborOk(Rotate60ccwTimes(w.cur, w.newRotations),
                    (w.rotations + w.newRotations) % 6, "none")

\* The index neighboring origin in direction dir, with the rotation count
\* rotations on entry.
h3NeighborRotations(origin, dir, rotations) ==
    IF dir < CenterDigit \/ dir >= InvalidDigit
    THEN NeighborErr("Failed", rotations, "none")
    ELSE IF H3_GET_BASE_CELL(origin) < 0
            \/ H3_GET_BASE_CELL(origin) >= NUM_BASE_CELLS
    THEN NeighborErr("CellInvalid", rotations, "none")
    ELSE NeighborFinish(
             NeighborDigits(origin, RotateDirCcwTimes(dir, rotations),
                            H3_GET_RESOLUTION(origin) - 1,
                            H3_GET_BASE_CELL(origin), rotations),
             H3_GET_BASE_CELL(origin), _h3LeadingNonZeroDigit(origin))

(***************************************************************************)
(* algos.rs: grid disks and rings                                          *)
(***************************************************************************)
maxGridDiskSize(k) == 3 * k * (k + 1) + 1

\* Results of the traversals: Ok(out) or Err(err).
TraverseOk(out) == [ok |-> TRUE, err |-> "", out |-> out]
TraverseErr(e) == [ok |-> FALSE, err |-> e, out |-> <<>>]

RECURSIVE DiskUnsafeLoop(_, _, _, _, _, _, _)

\* A variant of DiskUnsafeEmit that lacks the pentagon check after the push.
DiskUnsafeEmit_noPentagonCheck(n, k, ring, direction, i, out) ==
    IF ~n.ok THEN TraverseErr(n.err)
    ELSE DiskUnsafeLoop(n.h, k,
             IF i + 1 = ring /\ direction + 1 = 6 THEN ring + 1 ELSE ring,
             IF i + 1 = ring
             THEN (IF direction + 1 = 6 THEN 0 ELSE direction + 1)
             ELSE direction,
             IF i + 1 = ring THEN 0 ELSE i + 1,
             n.rotations, Append(out, <<n.h, ring>>))

\* gridDiskDistancesUnsafe, loop body after the step n along the side:
\* push, advance i / direction / ring, bail out on a pentagon.
DiskUnsafeEmit(n, k, ring, direction, i, out) ==
    IF ~n.ok THEN TraverseErr(n.err)
    ELSE IF isPentagon(n.h) THEN TraverseErr("Pentagon")
    ELSE DiskUnsafeLoop(n.h, k,
             IF i + 1 = ring /\ direction + 1 = 6 THEN ring + 1 ELSE ring,
             IF i + 1 = ring
             THEN (IF direction + 1 = 6 THEN 0 ELSE direction + 1)
             ELSE direction,
             IF i + 1 = ring THEN 0 ELSE i + 1,
             n.rotations, Append(out, <<n.h, ring>>))

\* gridDiskDistancesUnsafe, loop body after the step s to the next ring.
DiskUnsafeStart(s, k, ring, direction, i, out) ==
    IF ~s.ok THEN TraverseErr(s.err)
    ELSE IF isPentagon(s.h) THEN TraverseErr("Pentagon")
    ELSE DiskUnsafeEmit(
             h3NeighborRotations(s.h, DIRECTIONS[direction + 1], s.rotations),
             k, ring, direction, i, out)

\* A variant of the while loop of gridDiskDistancesUnsafe that stops one
\* ring early (ring < k for ring <= k).
DiskUnsafeLoop_ringBelowK(origin, k, ring, direction, i, rotations, out) ==
    IF ring >= k THEN TraverseOk(out)
    ELSE IF direction = 0 /\ i = 0
    THEN DiskUnsafeStart(
             h3NeighborRotations(origin, NEXT_RING_DIRECTION, rotations),
             k, ring, direction, i, out)
    ELSE DiskUnsafeEmit(
             h3NeighborRotations(origin, DIRECTIONS[direction + 1], rotations),
             k, ring, direction, i, out)

\* The while loop of gridDiskDistancesUnsafe.
DiskUnsafeLoop(origin, k, ring, direction, i, rotations, out) ==
    IF ring > k THEN TraverseOk(out)
    ELSE IF direction = 0 /\ i = 0
    THEN DiskUnsafeStart(
             h3NeighborRotations(origin, NEXT_RING_DIRECTION, rotations),
             k, ring, direction, i, out)
    ELSE DiskUnsafeEmit(
             h3NeighborRotations(origin, DIRECTIONS[direction + 1], rotations),
             k, ring, direction, i, out)

gridDiskDistancesUnsafe(origin, k) ==
    IF k < 0 THEN TraverseErr("Domain")
    ELSE IF isPentagon(origin) THEN TraverseErr("Pentagon")
    ELSE DiskUnsafeLoop(origin, k, 1, 0, 0, 0, <<<<origin, 0>>>>)

\* The probe loop of _gridDiskDistancesInternal: from slot off, the first
\* slot that is free or holds origin; -1 when n slots were probed without
\* finding one (the loop of the source never ends then).
RECURSIVE ProbeSlot(_, _, _, _, _)
ProbeSlot(out, off, origin, maxIdx, n) ==
    IF n >= maxIdx THEN -1
    ELSE IF out[off + 1][1] # H3_NULL /\ out[off + 1][1] # origin
    THEN ProbeSlot(out, (off + 1) % maxIdx, origin, maxIdx, n + 1)
    ELSE off

\* The state threaded through _gridDiskDistancesInternal: the error (or ""),
\* the hash set, whether a probe loop never ended, and the deepest curK the
\* function was entered with.
RECURSIVE _gridDiskDistancesInternal(_, _, _, _, _)
RECURSIVE DiskInternalNeighbors(_, _, _, _, _, _)

\* for i in 0..6, after the recursive call for direction i returned st.
DiskInternalRecursed(origin, k, st, maxIdx, curK, i) ==
    IF st.err # "" \/ st.hung THEN st
    ELSE DiskInternalNeighbors(origin, k, st, maxIdx, curK, i + 1)

\* A variant of DiskInternalStepped that returns every error of the step,
\* Pentagon included.
DiskInternalStepped_returnEveryError(n, origin, k, st, maxIdx, curK, i) ==
    IF n.ok
    THEN DiskInternalRecursed(origin, k,
             _gridDiskDistancesInternal(n.h, k, st, maxIdx, curK + 1),
             maxIdx, curK, i)
    ELSE [st EXCEPT !.err = n.err]

\* for i in 0..6, after the neighbor step n in direction i.
DiskInternalStepped(n, origin, k, st, maxIdx, curK, i) ==
    IF n.ok
    THEN DiskInternalRecursed(origin, k,
             _gridDiskDistancesInternal(n.h, k, st, maxIdx, curK + 1),
             maxIdx, curK, i)
    ELSE IF n.err # "Pentagon" THEN [st EXCEPT !.err = n.err]
    ELSE DiskInternalNeighbors(origin, k, st, maxIdx, curK, i + 1)

\* A variant of DiskInternalNeighbors whose loop leaves out the last
\* direction.
DiskInternalNeighbors_fiveDirections(origin, k, st, maxIdx, curK, i) ==
    IF i >= 5 THEN st
    ELSE DiskInternalStepped(h3NeighborRotations(origin, DIRECTIONS[i + 1], 0),
                             origin, k, st, maxIdx, curK, i)

\* The loop "for i in 0..6" of _gridDiskDistancesInternal, from i.
DiskInternalNeighbors(origin, k, st, maxIdx, curK, i) ==
    IF i >= 6 THEN st
    ELSE DiskInternalStepped(h3NeighborRotations(origin, DIRECTIONS[i + 1], 0),
                             origin, k, st, maxIdx, curK, i)

\* A variant of DiskInternalAt that returns on every duplicate, also on one
\* that was stored with a larger distance.
DiskInternalAt_anyDuplicate(off, origin, k, st, maxIdx, curK) ==
    IF off = -1 THEN [st EXCEPT !.hung = TRUE]
    ELSE IF st.out[off + 1][1] = origin THEN st
    ELSE IF curK >= k
    THEN [st EXCEPT !.out[off + 1] = <<origin, curK>>,
                    !.depth = IF curK > st.depth THEN curK ELSE st.depth]
    ELSE DiskInternalNeighbors(origin, k,
             [st EXCEPT !.out[off + 1] = <<origin, curK>>,
                        !.depth = IF curK > st.depth THEN curK ELSE st.depth],
             maxIdx, curK, 0)

\* _gridDiskDistancesInternal after the probe loop ended at slot off.
DiskInternalAt(off, origin, k, st, maxIdx, curK) ==
    IF off = -1 THEN [st EXCEPT !.hung = TRUE]
    ELSE IF st.out[off + 1][1] = origin /\ st.out[off + 1][2] <= curK THEN st
    ELSE IF curK >= k
    THEN [st EXCEPT !.out[off + 1] = <<origin, curK>>,
                    !.depth = IF curK > st.depth THEN curK ELSE st.depth]
    ELSE DiskInternalNeighbors(origin, k,
             [st EXCEPT !.out[off + 1] = <<origin, curK>>,
                        !.depth = IF curK > st.depth THEN curK ELSE st.depth],
             maxIdx, curK, 0)

_gridDiskDistancesInternal(origin, k, st, maxIdx, curK) ==
    DiskInternalAt(ProbeSlot(st.out, H3Mod(origin, maxIdx), origin, maxIdx, 0),
                   origin, k, st, maxIdx, curK)

RECURSIVE FilterNonZero(_, _)
\* A variant of FilterNonZero that keeps every slot of the hash set.
FilterNonZero_keepEverySlot(out, i) ==
    IF i > Len(out) THEN <<>>
    ELSE <<out[i]>> \o FilterNonZero(out, i + 1)

\* out.into_iter().filter(|(h3index, _)| *h3index != 0).collect()
FilterNonZero(out, i) ==
    IF i > Len(out) THEN <<>>
    ELSE IF out[i][1] # H3_NULL
    THEN <<out[i]>> \o FilterNonZero(out, i + 1)
    ELSE FilterNonZero(out, i + 1)

\* gridDiskDistances, the fallback: the result from the state slow that
\* _gridDiskDistancesInternal ended with.
DiskFromFallback(slow) ==
    IF slow.hung
    THEN [ok |-> FALSE, err |-> "", out |-> <<>>, fallback |-> TRUE,
          hung |-> TRUE, depth |-> slow.depth]
    ELSE IF slow.err # ""
    THEN [ok |-> FALSE, err |-> slow.err, out |-> <<>>, fallback |-> TRUE,
          hung |-> FALSE, depth |-> slow.depth]
    ELSE [ok |-> TRUE, err |-> "", out |-> FilterNonZero(slow.out, 1),
          fallback |-> TRUE, hung |-> FALSE, depth |-> slow.depth]

\* gridDiskDistances after the fast path returned fast.
DiskFromFast(fast, origin, k, maxIdx) ==
    IF fast.ok
    THEN [ok |-> TRUE, err |-> "", out |-> fast.out, fallback |-> FALSE,
          hung |-> FALSE, depth |-> 0]
    ELSE DiskFromFallback(_gridDiskDistancesInternal(origin, k,
             [err |-> "", hung |-> FALSE, depth |-> 0,
              out |-> [s \in 1..maxIdx |-> <<H3_NULL, 0>>]],
             maxIdx, 0))

\* gridDiskDistances: the fast path, and on any error of it the recursive
\* hash set algorithm; fallback says which of them produced the result.
gridDiskDistances(origin, k) ==
    DiskFromFast(gridDiskDistancesUnsafe(origin, k), origin, k,
                 maxGridDiskSize(k))

RECURSIVE RingOutward(_, _, _, _)

\* gridRingUnsafe, first loop, after the step n outward.
RingOutwardStepped(n, k, ring) ==
    IF ~n.ok THEN [ok |-> FALSE, err |-> n.err, h |-> n.h, rotations |-> 0]
    ELSE IF isPentagon(n.h)
    THEN [ok |-> FALSE, err |-> "Pentagon", h |-> n.h, rotations |-> 0]
    ELSE RingOutward(n.h, k, ring + 1, n.rotations)

\* The loop "for ring in 0..k" of gridRingUnsafe, from ring.
RingOutward(origin, k, ring, rotations) ==
    IF ring >= k
    THEN [ok |-> TRUE, err |-> "", h |-> origin, rotations |-> rotations]
    ELSE RingOutwardStepped(
             h3NeighborRotations(origin, NEXT_RING_DIRECTION, rotations), k, ring)

RECURSIVE RingSides(_, _, _, _, _, _, _)

\* A variant of RingSidesStepped that pushes the very last index too.
RingSidesStepped_pushLast(n, k, direction, pos, out, lastIndex) ==
    IF ~n.ok THEN TraverseErr(n.err)
    ELSE IF isPentagon(n.h) THEN TraverseErr("Pentagon")
    ELSE RingSides(n.h, k,
             IF pos + 1 = k THEN direction + 1 ELSE direction,
             IF pos + 1 = k THEN 0 ELSE pos + 1,
             n.rotations, Append(out, n.h), lastIndex)

\* gridRingUnsafe, second loop, after the step n along the side.
RingSidesStepped(n, k, direction, pos, out, lastIndex) ==
    IF ~n.ok THEN TraverseErr(n.err)
    ELSE IF (pos # k - 1 \/ direction # 5) /\ isPentagon(n.h)
    THEN TraverseErr("Pentagon")
    ELSE RingSides(n.h, k,
             IF pos + 1 = k THEN direction + 1 ELSE direction,
             IF pos + 1 = k THEN 0 ELSE pos + 1,
             n.rotations,
             IF pos # k - 1 \/ direction # 5 THEN Append(out, n.h) ELSE out,
             lastIndex)

\* A variant of RingSides that lacks the check that the walk closed.
RingSides_noClosureCheck(origin, k, direction, pos, rotations, out, lastIndex) ==
    IF direction >= 6 THEN TraverseOk(out)
    ELSE RingSidesStepped(
             h3NeighborRotations(origin, DIRECTIONS[direction + 1], rotations),
             k, direction, pos, out, lastIndex)

\* The loops "for direction in 0..6 / for pos in 0..k" of gridRingUnsafe,
\* and the check after them that the walk closed on lastIndex.
RingSides(origin, k, direction, pos, rotations, out, lastIndex) ==
    IF direction >= 6
    THEN IF lastIndex # origin THEN TraverseErr("Pentagon") ELSE TraverseOk(out)
    ELSE RingSidesStepped(
             h3NeighborRotations(origin, DIRECTIONS[direction + 1], rotations),
             k, direction, pos, out, lastIndex)

\* gridRingUnsafe after the walk o outward to the ring.
RingFrom(o, k) ==
    IF ~o.ok THEN TraverseErr(o.err)
    ELSE RingSides(o.h, k, 0, 0, o.rotations, <<o.h>>, o.h)

gridRingUnsafe(origin, k) ==
    IF k = 0 THEN TraverseOk(<<origin>>)
    ELSE IF isPentagon(origin) THEN TraverseErr("Pentagon")
    ELSE RingFrom(RingOutward(origin, k, 0, 0), k)

(***************************************************************************)
(* 64-bit arithmetic. A natural number is a little-endian sequence of      *)
(* WideLen bytes (80 bits), wide enough for every exact value below; an    *)
(* i64 or u64 holds the low 8 bytes.                                       *)
(***************************************************************************)
WideLen == 10

\* The u32 with the bytes b0 (least significant) .. b3, as a wide number.
WideOfU32(b0, b1, b2, b3) == <<b0, b1, b2, b3, 0, 0, 0, 0, 0, 0>>

\* The wide number of a small natural n < 2^31.
WideOfNat(n) ==
    [i \in 1..WideLen |->
        IF i = 1 THEN n % 256
        ELSE IF i = 2 THEN (n \div 256) % 256
        ELSE IF i = 3 THEN (n \div 65536) % 256
        ELSE IF i = 4 THEN (n \div 16777216) % 256
        ELSE 0]

\* Carry propagation over the column sums col, from byte i.
RECURSIVE WideCarry(_, _, _)
WideCarry(col, i, carry) ==
    IF i > WideLen THEN <<>>
    ELSE <<(col[i] + carry) % 256>>
         \o WideCarry(col, i + 1, (col[i] + carry) \div 256)

\* The sum of the products a[i] * b[j] with i + j = n + 1, from i.
RECURSIVE WideColumn(_, _, _, _)
WideColumn(a, b, n, i) ==
    IF i > n THEN 0
    ELSE a[i] * b[n + 1 - i] + WideColumn(a, b, n, i + 1)

\* Exact sum and product (of numbers whose result is below 2^80).
WideAdd(a, b) == WideCarry([i \in 1..WideLen |-> a[i] + b[i]], 1, 0)
WideMul(a, b) == WideCarry([n \in 1..WideLen |-> WideColumn(a, b, n, 1)], 1, 0)

\* Whether the non-negative exact value a is outside the range of i64.
OverflowsI64(a) == a[8] >= 128 \/ a[9] # 0 \/ a[10] # 0

\* The i64 that wrapping arithmetic leaves for the exact value a, read as u64
\* (the cast "as usize" of a 64-bit target).
WrapToU64(a) == [i \in 1..WideLen |-> IF i <= 8 THEN a[i] ELSE 0]

\* maxGridDiskSize(k: u32), as computed:
\*   (3 * k as i64 * (k as i64 + 1) + 1) as usize
\* product is 3 * k * (k + 1), total is product + 1, both exact. An i64
\* operation whose exact result is out of range panics in a build with
\* overflow checks and wraps in a build without them; the operations on
\* wrapped values give the exact value modulo 2^64.
maxGridDiskSizeFrom(product, total) ==
    IF OverflowsI64(product) \/ OverflowsI64(total)
    THEN {[panic |-> TRUE, size |-> WideOfNat(0)],
          [panic |-> FALSE, size |-> WrapToU64(total)]}
    ELSE {[panic |-> FALSE, size |-> total]}

maxGridDiskSizeOf(product) ==
    maxGridDiskSizeFrom(product, WideAdd(product, WideOfNat(1)))

\* The set of the results the builds of maxGridDiskSize can give for k.
maxGridDiskSizeI64(k) ==
    maxGridDiskSizeOf(WideMul(WideMul(WideOfNat(3), k), WideAdd(k, WideOfNat(1))))

(***************************************************************************)
(* coord_ijk.rs: ijk coordinates, with the 32-bit arithmetic of i32        *)
(***************************************************************************)
\* TRUE. TLC evaluates an argument of an operator at its first use; a loop
\* that tests Evaluated(v) first has the value of each pass computed before
\* the next pass begins.
Evaluated(v) == v = v

MaxI32 == 2147483647
MinI32 == -MaxI32 - 1

\* a + b in i32 with wrap-around (a and b in the range of i32).
I32Add(a, b) ==
    IF b > 0 /\ a > MaxI32 - b THEN (a - MaxI32 - 1) + (b - MaxI32 - 1)
    ELSE IF b < 0 /\ a < MinI32 - b THEN (a + MaxI32 + 1) + (b + MaxI32 + 1)
    ELSE a + b

\* a + b is outside of the range of i32.
I32AddOverflows(a, b) ==
    (b > 0 /\ a > MaxI32 - b) \/ (b < 0 /\ a < MinI32 - b)

\* -b in i32 with wrap-around.
I32Neg(b) == IF b = MinI32 THEN MinI32 ELSE -b

I32Sub(a, b) ==
    IF b = MinI32 THEN I32Add(I32Add(a, MaxI32), 1) ELSE I32Add(a, -b)

I32SubOverflows(a, b) ==
    IF b = MinI32 THEN a >= 0 ELSE I32AddOverflows(a, -b)

\* a * factor in i32 with wrap-around, for the factors 0..3 of the unit
\* vectors.
RECURSIVE I32Mul(_, _)
I32Mul(a, factor) ==
    IF factor = 0 THEN 0 ELSE I32Add(I32Mul(a, factor - 1), a)

I32MulOverflows(a, factor) ==
    factor > 1 /\ (a > MaxI32 \div factor \/ a < -(MaxI32 \div factor) - 1)

CoordIJK(i, j, k) == [i |-> i, j |-> j, k |-> k]

\* The unit vectors of the 7 digits.
UNIT_VECS ==
    << CoordIJK(0, 0, 0), CoordIJK(0, 0, 1), CoordIJK(0, 1, 0), CoordIJK(0, 1, 1),
       CoordIJK(1, 0, 0), CoordIJK(1, 0, 1), CoordIJK(1, 1, 0) >>

_ijkMatches(c1, c2) == c1.i = c2.i /\ c1.j = c2.j /\ c1.k = c2.k

_ijkAdd(h1, h2) ==
    CoordIJK(I32Add(h1.i, h2.i), I32Add(h1.j, h2.j), I32Add(h1.k, h2.k))

_ijkAddOverflows(h1, h2) ==
    I32AddOverflows(h1.i, h2.i) \/ I32AddOverflows(h1.j, h2.j)
    \/ I32AddOverflows(h1.k, h2.k)

_ijkSub(h1, h2) ==
    CoordIJK(I32Sub(h1.i, h2.i), I32Sub(h1.j, h2.j), I32Sub(h1.k, h2.k))

_ijkScale(c, factor) ==
    CoordIJK(I32Mul(factor, c.i), I32Mul(factor, c.j), I32Mul(factor, c.k))

\* The steps of _ijkNormalize: remove a negative i, j, k, then the minimum.
NormalizeI(c) ==
    IF c.i < 0 THEN CoordIJK(0, I32Sub(c.j, c.i), I32Sub(c.k, c.i)) ELSE c

NormalizeJ(c) ==
    IF c.j < 0 THEN CoordIJK(I32Sub(c.i, c.j), 0, I32Sub(c.k, c.j)) ELSE c

NormalizeK(c) ==
    IF c.k < 0 THEN CoordIJK(I32Sub(c.i, c.k), I32Sub(c.j, c.k), 0) ELSE c

MinOf3(a, b, c) == IF b < a THEN (IF c < b THEN c ELSE b) ELSE (IF c < a THEN c ELSE a)

NormalizeMin(c, min) ==
    IF min > 0 THEN CoordIJK(c.i - min, c.j - min, c.k - min) ELSE c

NormalizePositive(c) == NormalizeMin(c, MinOf3(c.i, c.j, c.k))

_ijkNormalize(c) == NormalizePositive(NormalizeK(NormalizeJ(NormalizeI(c))))

\* The first digit whose unit vector is the normalized ijk, from digit i.
RECURSIVE UnitDigitFrom(_, _)
UnitDigitFrom(c, i) ==
    IF i >= InvalidDigit THEN InvalidDigit
    ELSE IF _ijkMatches(c, UNIT_VECS[i + 1]) THEN i
    ELSE UnitDigitFrom(c, i + 1)

_unitIjkToDigit(ijk) == UnitDigitFrom(_ijkNormalize(ijk), CenterDigit)

\* (x / 7.0).round() for an integer x: the nearest integer (x / 7 is never
\* half way between two integers).
Round7(x) == (2 * x + 7) \div 14

\* ((a * i + b * j) / 7.0).round() for small a, b, computed on the quotients
\* and remainders of i and j by 7 so that no intermediate value leaves the
\* range of the integers of the model.
RoundComb7(a, i, b, j) ==
    a * (i \div 7) + b * (j \div 7) + Round7(a * (i % 7) + b * (j % 7))

\* The parent in a counter-clockwise aperture 7 grid; i and j are the
\* differences ijk.i - ijk.k and ijk.j - ijk.k.
UpAp7Of(i, j) ==
    _ijkNormalize(CoordIJK(RoundComb7(3, i, -1, j), RoundComb7(1, i, 2, j), 0))

_upAp7(ijk) == UpAp7Of(I32Sub(ijk.i, ijk.k), I32Sub(ijk.j, ijk.k))

\* The parent in a clockwise aperture 7 grid.
UpAp7rOf(i, j) ==
    _ijkNormalize(CoordIJK(RoundComb7(2, i, 1, j), RoundComb7(-1, i, 3, j), 0))

_upAp7r(ijk) == UpAp7rOf(I32Sub(ijk.i, ijk.k), I32Sub(ijk.j, ijk.k))

\* ijk.i * iVec + ijk.j * jVec + ijk.k * kVec, normalized.
IjkCombine(ijk, iVec, jVec, kVec) ==
    _ijkNormalize(_ijkAdd(_ijkAdd(_ijkScale(iVec, ijk.i), _ijkScale(jVec, ijk.j)),
                          _ijkScale(kVec, ijk.k)))

\* Some multiplication or addition of IjkCombine leaves the range of i32.
IjkCombineOverflows(ijk, iVec, jVec, kVec) ==
    \/ \E f \in {iVec.i, iVec.j, iVec.k} : I32MulOverflows(ijk.i, f)
    \/ \E f \in {jVec.i, jVec.j, jVec.k} : I32MulOverflows(ijk.j, f)
    \/ \E f \in {kVec.i, kVec.j, kVec.k} : I32MulOverflows(ijk.k, f)
    \/ _ijkAddOverflows(_ijkScale(iVec, ijk.i), _ijkScale(jVec, ijk.j))
    \/ _ijkAddOverflows(_ijkAdd(_ijkScale(iVec, ijk.i), _ijkScale(jVec, ijk.j)),
                        _ijkScale(kVec, ijk.k))

\* A variant of _downAp7 that uses the unit vectors of the clockwise grid.
_downAp7_clockwise(ijk) ==
    IjkCombine(ijk, CoordIJK(3, 1, 0), CoordIJK(0, 3, 1), CoordIJK(1, 0, 3))

\* The center child in a counter-clockwise aperture 7 grid.
_downAp7(ijk) ==
    IjkCombine(ijk, CoordIJK(3, 0, 1), CoordIJK(1, 3, 0), CoordIJK(0, 1, 3))

_downAp7Overflows(ijk) ==
    IjkCombineOverflows(ijk, CoordIJK(3, 0, 1), CoordIJK(1, 3, 0), CoordIJK(0, 1, 3))

\* The center child in a clockwise aperture 7 grid.
_downAp7r(ijk) ==
    IjkCombine(ijk, CoordIJK(3, 1, 0), CoordIJK(0, 3, 1), CoordIJK(1, 0, 3))

_downAp7rOverflows(ijk) ==
    IjkCombineOverflows(ijk, CoordIJK(3, 1, 0), CoordIJK(0, 3, 1), CoordIJK(1, 0, 3))

\* The hex in the direction digit.
_neighbor(ijk, digit) ==
    IF digit > CenterDigit /\ digit < NUM_DIGITS
    THEN _ijkNormalize(_ijkAdd(ijk, UNIT_VECS[digit + 1]))
    ELSE ijk

_ijkRotate60ccw(ijk) ==
    IjkCombine(ijk, CoordIJK(1, 1, 0), CoordIJK(0, 1, 1), CoordIJK(1, 0, 1))

_ijkRotate60cw(ijk) ==
    IjkCombine(ijk, CoordIJK(1, 0, 1), CoordIJK(1, 1, 0), CoordIJK(0, 1, 1))

(***************************************************************************)
(* base_cells.rs, face_ijk.rs: the tables of the faces                     *)
(***************************************************************************)
\* faceIjkBaseCells[face][i][j][k] = <<baseCell, ccwRot60>>.
faceIjkBaseCells ==
  << <<<<<<<<16, 0>>, <<18, 0>>, <<24, 0>>>>,
         <<<<33, 0>>, <<30, 0>>, <<32, 3>>>>,
         <<<<49, 1>>, <<48, 3>>, <<50, 3>>>>>>,
        <<<<<<8, 0>>, <<5, 5>>, <<10, 5>>>>,
         <<<<22, 0>>, <<16, 0>>, <<18, 0>>>>,
         <<<<41, 1>>, <<33, 0>>, <<30, 0>>>>>>,
        <<<<<<4, 0>>, <<0, 5>>, <<2, 5>>>>,
         <<<<15, 1>>, <<8, 0>>, <<5, 5>>>>,
         <<<<31, 1>>, <<22, 0>>, <<16, 0>>>>>>>>,
     <<<<<<<<2, 0>>, <<6, 0>>, <<14, 0>>>>,
         <<<<10, 0>>, <<11, 0>>, <<17, 3>>>>,
         <<<<24, 1>>, <<23, 3>>, <<25, 3>>>>>>,
        <<<<<<0, 0>>, <<1, 5>>, <<9, 5>>>>,
         <<<<5, 0>>, <<2, 0>>, <<6, 0>>>>,
         <<<<18, 1>>, <<10, 0>>, <<11, 0>>>>>>,
        <<<<<<4, 1>>, <<3, 5>>, <<7, 5>>>>,
         <<<<8, 1>>, <<0, 0>>, <<1, 5>>>>,
         <<<<16, 1>>, <<5, 0>>, <<2, 0>>>>>>>>,
     <<<<<<<<7, 0>>, <<21, 0>>, <<38, 0>>>>,
         <<<<9, 0>>, <<19, 0>>, <<34, 3>>>>,
         <<<<14, 1>>, <<20, 3>>, <<36, 3>>>>>>,
        <<<<<<3, 0>>, <<13, 5>>, <<29, 5>>>>,
         <<<<1, 0>>, <<7, 0>>, <<21, 0>>>>,
         <<<<6, 1>>, <<9, 0>>, <<19, 0>>>>>>,
        <<<<<<4, 2>>, <<12, 5>>, <<26, 5>>>>,
         <<<<0, 1>>, <<3, 0>>, <<13, 5>>>>,
         <<<<2, 1>>, <<1, 0>>, <<7, 0>>>>>>>>,
     <<<<<<<<26, 0>>, <<42, 0>>, <<58, 0>>>>,
         <<<<29, 0>>, <<43, 0>>, <<62, 3>>>>,
         <<<<38, 1>>, <<47, 3>>, <<64, 3>>>>>>,
        <<<<<<12, 0>>, <<28, 5>>, <<44, 5>>>>,
         <<<<13, 0>>, <<26, 0>>, <<42, 0>>>>,
         <<<<21, 1>>, <<29, 0>>, <<43, 0>>>>>>,
        <<<<<<4, 3>>, <<15, 5>>, <<31, 5>>>>,
         <<<<3, 1>>, <<12, 0>>, <<28, 5>>>>,
         <<<<7, 1>>, <<13, 0>>, <<26, 0>>>>>>>>,
     <<<<<<<<31, 0>>, <<41, 0>>, <<49, 0>>>>,
         <<<<44, 0>>, <<53, 0>>, <<61, 3>>>>,
         <<<<58, 1>>, <<65, 3>>, <<75, 3>>>>>>,
        <<<<<<15, 0>>, <<22, 5>>, <<33, 5>>>>,
         <<<<28, 0>>, <<31, 0>>, <<41, 0>>>>,
         <<<<42, 1>>, <<44, 0>>, <<53, 0>>>>>>,
        <<<<<<4, 4>>, <<8, 5>>, <<16, 5>>>>,
         <<<<12, 1>>, <<15, 0>>, <<22, 5>>>>,
         <<<<26, 1>>, <<28, 0>>, <<31, 0>>>>>>>>,
     <<<<<<<<50, 0>>, <<48, 0>>, <<49, 3>>>>,
         <<<<32, 0>>, <<30, 3>>, <<33, 3>>>>,
         <<<<24, 3>>, <<18, 3>>, <<16, 3>>>>>>,
        <<<<<<70, 0>>, <<67, 0>>, <<66, 3>>>>,
         <<<<52, 3>>, <<50, 0>>, <<48, 0>>>>,
         <<<<37, 3>>, <<32, 0>>, <<30, 3>>>>>>,
        <<<<<<83, 0>>, <<87, 3>>, <<85, 3>>>>,
         <<<<74, 3>>, <<70, 0>>, <<67, 0>>>>,
         <<<<57, 1>>, <<52, 3>>, <<50, 0>>>>>>>>,
     <<<<<<<<25, 0>>, <<23, 0>>, <<24, 3>>>>,
         <<<<17, 0>>, <<11, 3>>, <<10, 3>>>>,
         <<<<14, 3>>, <<6, 3>>, <<2, 3>>>>>>,
        <<<<<<45, 0>>, <<39, 0>>, <<37, 3>>>>,
         <<<<35, 3>>, <<25, 0>>, <<23, 0>>>>,
         <<<<27, 3>>, <<17, 0>>, <<11, 3>>>>>>,
        <<<<<<63, 0>>, <<59, 3>>, <<57, 3>>>>,
         <<<<56, 3>>, <<45, 0>>, <<39, 0>>>>,
         <<<<46, 3>>, <<35, 3>>, <<25, 0>>>>>>>>,
     <<<<<<<<36, 0>>, <<20, 0>>, <<14, 3>>>>,
         <<<<34, 0>>, <<19, 3>>, <<9, 3>>>>,
         <<<<38, 3>>, <<21, 3>>, <<7, 3>>>>>>,
        <<<<<<55, 0>>, <<40, 0>>, <<27, 3>>>>,
         <<<<54, 3>>, <<36, 0>>, <<20, 0>>>>,
         <<<<51, 3>>, <<34, 0>>, <<19, 3>>>>>>,
        <<<<<<72, 0>>, <<60, 3>>, <<46, 3>>>>,
         <<<<73, 3>>, <<55, 0>>, <<40, 0>>>>,
         <<<<71, 3>>, <<54, 3>>, <<36, 0>>>>>>>>,
     <<<<<<<<64, 0>>, <<47, 0>>, <<38, 3>>>>,
         <<<<62, 0>>, <<43, 3>>, <<29, 3>>>>,
         <<<<58, 3>>, <<42, 3>>, <<26, 3>>>>>>,
        <<<<<<84, 0>>, <<69, 0>>, <<51, 3>>>>,
         <<<<82, 3>>, <<64, 0>>, <<47, 0>>>>,
         <<<<76, 3>>, <<62, 0>>, <<43, 3>>>>>>,
        <<<<<<97, 0>>, <<89, 3>>, <<71, 3>>>>,
         <<<<98, 3>>, <<84, 0>>, <<69, 0>>>>,
         <<<<96, 3>>, <<82, 3>>, <<64, 0>>>>>>>>,
     <<<<<<<<75, 0>>, <<65, 0>>, <<58, 3>>>>,
         <<<<61, 0>>, <<53, 3>>, <<44, 3>>>>,
         <<<<49, 3>>, <<41, 3>>, <<31, 3>>>>>>,
        <<<<<<94, 0>>, <<86, 0>>, <<76, 3>>>>,
         <<<<81, 3>>, <<75, 0>>, <<65, 0>>>>,
         <<<<66, 3>>, <<61, 0>>, <<53, 3>>>>>>,
        <<<<<<107, 0>>, <<104, 3>>, <<96, 3>>>>,
         <<<<101, 3>>, <<94, 0>>, <<86, 0>>>>,
         <<<<85, 3>>, <<81, 3>>, <<75, 0>>>>>>>>,
     <<<<<<<<57, 0>>, <<59, 0>>, <<63, 3>>>>,
         <<<<74, 0>>, <<78, 3>>, <<79, 3>>>>,
         <<<<83, 3>>, <<92, 3>>, <<95, 3>>>>>>,
        <<<<<<37, 0>>, <<39, 3>>, <<45, 3>>>>,
         <<<<52, 0>>, <<57, 0>>, <<59, 0>>>>,
         <<<<70, 3>>, <<74, 0>>, <<78, 3>>>>>>,
        <<<<<<24, 0>>, <<23, 3>>, <<25, 3>>>>,
         <<<<32, 3>>, <<37, 0>>, <<39, 3>>>>,
         <<<<50, 3>>, <<52, 0>>, <<57, 0>>>>>>>>,
     <<<<<<<<46, 0>>, <<60, 0>>, <<72, 3>>>>,
         <<<<56, 0>>, <<68, 3>>, <<80, 3>>>>,
         <<<<63, 3>>, <<77, 3>>, <<90, 3>>>>>>,
        <<<<<<27, 0>>, <<40, 3>>, <<55, 3>>>>,
         <<<<35, 0>>, <<46, 0>>, <<60, 0>>>>,
         <<<<45, 3>>, <<56, 0>>, <<68, 3>>>>>>,
        <<<<<<14, 0>>, <<20, 3>>, <<36, 3>>>>,
         <<<<17, 3>>, <<27, 0>>, <<40, 3>>>>,
         <<<<25, 3>>, <<35, 0>>, <<46, 0>>>>>>>>,
     <<<<<<<<71, 0>>, <<89, 0>>, <<97, 3>>>>,
         <<<<73, 0>>, <<91, 3>>, <<103, 3>>>>,
         <<<<72, 3>>, <<88, 3>>, <<105, 3>>>>>>,
        <<<<<<51, 0>>, <<69, 3>>, <<84, 3>>>>,
         <<<<54, 0>>, <<71, 0>>, <<89, 0>>>>,
         <<<<55, 3>>, <<73, 0>>, <<91, 3>>>>>>,
        <<<<<<38, 0>>, <<47, 3>>, <<64, 3>>>>,
         <<<<34, 3>>, <<51, 0>>, <<69, 3>>>>,
         <<<<36, 3>>, <<54, 0>>, <<71, 0>>>>>>>>,
     <<<<<<<<96, 0>>, <<104, 0>>, <<107, 3>>>>,
         <<<<98, 0>>, <<110, 3>>, <<115, 3>>>>,
         <<<<97, 3>>, <<111, 3>>, <<119, 3>>>>>>,
        <<<<<<76, 0>>, <<86, 3>>, <<94, 3>>>>,
         <<<<82, 0>>, <<96, 0>>, <<104, 0>>>>,
         <<<<84, 3>>, <<98, 0>>, <<110, 3>>>>>>,
        <<<<<<58, 0>>, <<65, 3>>, <<75, 3>>>>,
         <<<<62, 3>>, <<76, 0>>, <<86, 3>>>>,
         <<<<64, 3>>, <<82, 0>>, <<96, 0>>>>>>>>,
     <<<<<<<<85, 0>>, <<87, 0>>, <<83, 3>>>>,
         <<<<101, 0>>, <<102, 3>>, <<100, 3>>>>,
         <<<<107, 3>>, <<112, 3>>, <<114, 3>>>>>>,
        <<<<<<66, 0>>, <<67, 3>>, <<70, 3>>>>,
         <<<<81, 0>>, <<85, 0>>, <<87, 0>>>>,
         <<<<94, 3>>, <<101, 0>>, <<102, 3>>>>>>,
        <<<<<<49, 0>>, <<48, 3>>, <<50, 3>>>>,
         <<<<61, 3>>, <<66, 0>>, <<67, 3>>>>,
         <<<<75, 3>>, <<81, 0>>, <<85, 0>>>>>>>>,
     <<<<<<<<95, 0>>, <<92, 0>>, <<83, 0>>>>,
         <<<<79, 0>>, <<78, 0>>, <<74, 3>>>>,
         <<<<63, 1>>, <<59, 3>>, <<57, 3>>>>>>,
        <<<<<<109, 0>>, <<108, 0>>, <<100, 5>>>>,
         <<<<93, 1>>, <<95, 0>>, <<92, 0>>>>,
         <<<<77, 1>>, <<79, 0>>, <<78, 0>>>>>>,
        <<<<<<117, 4>>, <<118, 5>>, <<114, 5>>>>,
         <<<<106, 1>>, <<109, 0>>, <<108, 0>>>>,
         <<<<90, 1>>, <<93, 1>>, <<95, 0>>>>>>>>,
     <<<<<<<<90, 0>>, <<77, 0>>, <<63, 0>>>>,
         <<<<80, 0>>, <<68, 0>>, <<56, 3>>>>,
         <<<<72, 1>>, <<60, 3>>, <<46, 3>>>>>>,
        <<<<<<106, 0>>, <<93, 0>>, <<79, 5>>>>,
         <<<<99, 1>>, <<90, 0>>, <<77, 0>>>>,
         <<<<88, 1>>, <<80, 0>>, <<68, 0>>>>>>,
        <<<<<<117, 3>>, <<109, 5>>, <<95, 5>>>>,
         <<<<113, 1>>, <<106, 0>>, <<93, 0>>>>,
         <<<<105, 1>>, <<99, 1>>, <<90, 0>>>>>>>>,
     <<<<<<<<105, 0>>, <<88, 0>>, <<72, 0>>>>,
         <<<<103, 0>>, <<91, 0>>, <<73, 3>>>>,
         <<<<97, 1>>, <<89, 3>>, <<71, 3>>>>>>,
        <<<<<<113, 0>>, <<99, 0>>, <<80, 5>>>>,
         <<<<116, 1>>, <<105, 0>>, <<88, 0>>>>,
         <<<<111, 1>>, <<103, 0>>, <<91, 0>>>>>>,
        <<<<<<117, 2>>, <<106, 5>>, <<90, 5>>>>,
         <<<<121, 1>>, <<113, 0>>, <<99, 0>>>>,
         <<<<119, 1>>, <<116, 1>>, <<105, 0>>>>>>>>,
     <<<<<<<<119, 0>>, <<111, 0>>, <<97, 0>>>>,
         <<<<115, 0>>, <<110, 0>>, <<98, 3>>>>,
         <<<<107, 1>>, <<104, 3>>, <<96, 3>>>>>>,
        <<<<<<121, 0>>, <<116, 0>>, <<103, 5>>>>,
         <<<<120, 1>>, <<119, 0>>, <<111, 0>>>>,
         <<<<112, 1>>, <<115, 0>>, <<110, 0>>>>>>,
        <<<<<<117, 1>>, <<113, 5>>, <<105, 5>>>>,
         <<<<118, 1>>, <<121, 0>>, <<116, 0>>>>,
         <<<<114, 1>>, <<120, 1>>, <<119, 0>>>>>>>>,
     <<<<<<<<114, 0>>, <<112, 0>>, <<107, 0>>>>,
         <<<<100, 0>>, <<102, 0>>, <<101, 3>>>>,
         <<<<83, 1>>, <<87, 3>>, <<85, 3>>>>>>,
        <<<<<<118, 0>>, <<120, 0>>, <<115, 5>>>>,
         <<<<108, 1>>, <<114, 0>>, <<112, 0>>>>,
         <<<<92, 1>>, <<100, 0>>, <<102, 0>>>>>>,
        <<<<<<117, 0>>, <<121, 5>>, <<119, 5>>>>,
         <<<<109, 1>>, <<118, 0>>, <<120, 0>>>>,
         <<<<95, 1>>, <<108, 1>>, <<114, 0>>>>>>>> >>

\* faceNeighbors[face][quadrant] = <<face, translate i, j, k, ccwRot60>>, the
\* quadrants being the central face, IJ, KI and JK.
faceNeighbors ==
  << <<<<0, 0, 0, 0, 0>>, <<4, 2, 0, 2, 1>>, <<1, 2, 2, 0, 5>>, <<5, 0, 2, 2, 3>>>>,
     <<<<1, 0, 0, 0, 0>>, <<0, 2, 0, 2, 1>>, <<2, 2, 2, 0, 5>>, <<6, 0, 2, 2, 3>>>>,
     <<<<2, 0, 0, 0, 0>>, <<1, 2, 0, 2, 1>>, <<3, 2, 2, 0, 5>>, <<7, 0, 2, 2, 3>>>>,
     <<<<3, 0, 0, 0, 0>>, <<2, 2, 0, 2, 1>>, <<4, 2, 2, 0, 5>>, <<8, 0, 2, 2, 3>>>>,
     <<<<4, 0, 0, 0, 0>>, <<3, 2, 0, 2, 1>>, <<0, 2, 2, 0, 5>>, <<9, 0, 2, 2, 3>>>>,
     <<<<5, 0, 0, 0, 0>>, <<10, 2, 2, 0, 3>>, <<14, 2, 0, 2, 3>>, <<0, 0, 2, 2, 3>>>>,
     <<<<6, 0, 0, 0, 0>>, <<11, 2, 2, 0, 3>>, <<10, 2, 0, 2, 3>>, <<1, 0, 2, 2, 3>>>>,
     <<<<7, 0, 0, 0, 0>>, <<12, 2, 2, 0, 3>>, <<11, 2, 0, 2, 3>>, <<2, 0, 2, 2, 3>>>>,
     <<<<8, 0, 0, 0, 0>>, <<13, 2, 2, 0, 3>>, <<12, 2, 0, 2, 3>>, <<3, 0, 2, 2, 3>>>>,
     <<<<9, 0, 0, 0, 0>>, <<14, 2, 2, 0, 3>>, <<13, 2, 0, 2, 3>>, <<4, 0, 2, 2, 3>>>>,
     <<<<10, 0, 0, 0, 0>>, <<5, 2, 2, 0, 3>>, <<6, 2, 0, 2, 3>>, <<15, 0, 2, 2, 3>>>>,
     <<<<11, 0, 0, 0, 0>>, <<6, 2, 2, 0, 3>>, <<7, 2, 0, 2, 3>>, <<16, 0, 2, 2, 3>>>>,
     <<<<12, 0, 0, 0, 0>>, <<7, 2, 2, 0, 3>>, <<8, 2, 0, 2, 3>>, <<17, 0, 2, 2, 3>>>>,
     <<<<13, 0, 0, 0, 0>>, <<8, 2, 2, 0, 3>>, <<9, 2, 0, 2, 3>>, <<18, 0, 2, 2, 3>>>>,
     <<<<14, 0, 0, 0, 0>>, <<9, 2, 2, 0, 3>>, <<5, 2, 0, 2, 3>>, <<19, 0, 2, 2, 3>>>>,
     <<<<15, 0, 0, 0, 0>>, <<16, 2, 0, 2, 1>>, <<19, 2, 2, 0, 5>>, <<10, 0, 2, 2, 3>>>>,
     <<<<16, 0, 0, 0, 0>>, <<17, 2, 0, 2, 1>>, <<15, 2, 2, 0, 5>>, <<11, 0, 2, 2, 3>>>>,
     <<<<17, 0, 0, 0, 0>>, <<18, 2, 0, 2, 1>>, <<16, 2, 2, 0, 5>>, <<12, 0, 2, 2, 3>>>>,
     <<<<18, 0, 0, 0, 0>>, <<19, 2, 0, 2, 1>>, <<17, 2, 2, 0, 5>>, <<13, 0, 2, 2, 3>>>>,
     <<<<19, 0, 0, 0, 0>>, <<15, 2, 0, 2, 1>>, <<18, 2, 2, 0, 5>>, <<14, 0, 2, 2, 3>>>> >>

maxDimByCIIres ==
  <<2, -1, 14, -1, 98, -1, 686, -1, 4802, -1, 33614, -1, 235298, -1, 1647086, -1, 11529602>>

unitScaleByCIIres ==
  <<1, -1, 7, -1, 49, -1, 343, -1, 2401, -1, 16807, -1, 117649, -1, 823543, -1, 5764801>>

(***************************************************************************)
(* h3_index.rs, face_ijk.rs: indexes and face-centered ijk coordinates     *)
(***************************************************************************)
NUM_ICOSA_FACES == 20
MAX_FACE_COORD == 2

FaceIJK(face, coord) == [face |-> face, coord |-> coord]

_faceIjkToBaseCell(h) ==
    faceIjkBaseCells[h.face + 1][h.coord.i + 1][h.coord.j + 1][h.coord.k + 1][1]

_faceIjkToBaseCellCCWrot60(h) ==
    faceIjkBaseCells[h.face + 1][h.coord.i + 1][h.coord.j + 1][h.coord.k + 1][2]

\* Some component is past the last coordinate of the base cell lookup.
PastMaxFaceCoord(coord) ==
    coord.i > MAX_FACE_COORD \/ coord.j > MAX_FACE_COORD \/ coord.k > MAX_FACE_COORD

\* One pass of the digit loop of _faceIjkToH3, for the digit r + 1: lastIJK
\* is the ijk before the pass, up its parent and lastCenter the center child
\* of the parent.
FaceIjkDigit(lastIJK, lastCenter) ==
    _unitIjkToDigit(_ijkNormalize(_ijkSub(lastIJK, lastCenter)))

\* One pass of the digit loop of _faceIjkToH3 on w = [h, ijk, overflow], with
\* the parent up of w.ijk and its center child lastCenter.
FaceIjkDigitUp(w, r, up, overflows, lastCenter) ==
    [h |-> H3_SET_INDEX_DIGIT(w.h, r + 1, FaceIjkDigit(w.ijk, lastCenter)),
     ijk |-> up,
     overflow |-> w.overflow \/ overflows]

\* The pass for the digit r + 1: the resolution r + 1 selects the aperture 7
\* grid.
FaceIjkDigitPass(w, r) ==
    IF isResolutionClassIII(r + 1)
    THEN FaceIjkDigitUp(w, r, _upAp7(w.ijk), _downAp7Overflows(_upAp7(w.ijk)),
                        _downAp7(_upAp7(w.ijk)))
    ELSE FaceIjkDigitUp(w, r, _upAp7r(w.ijk), _downAp7rOverflows(_upAp7r(w.ijk)),
                        _downAp7r(_upAp7r(w.ijk)))

\* The passes for r = first down to last, taken in two halves.
RECURSIVE FaceIjkDigitPasses(_, _, _)
FaceIjkDigitPasses(w, first, last) ==
    IF Evaluated(w) /\ first < last THEN w
    ELSE IF first = last THEN FaceIjkDigitPass(w, first)
    ELSE FaceIjkDigitPasses(
             FaceIjkDigitPasses(w, first, (first + last) \div 2 + 1),
             (first + last) \div 2, last)

\* The digit loop of _faceIjkToH3 from the digit r + 1 down to the digit 1:
\* the index, the ijk of the base cell, and whether an operation of i32
\* overflowed on the way.
FaceIjkDigits(h, ijk, r) ==
    FaceIjkDigitPasses([h |-> h, ijk |-> ijk, overflow |-> FALSE], r, 0)

\* The rotation of _faceIjkToH3 into the orientation of the base cell.
FaceIjkRotate(h, baseCell, face, numRots) ==
    IF Evaluated(h) /\ _isBaseCellPentagon(baseCell)
    THEN RotatePent60ccwTimes(
             IF _h3LeadingNonZeroDigit(h) = KAxesDigit
             THEN IF _baseCellIsCwOffset(baseCell, face)
                  THEN _h3Rotate60cw(h) ELSE _h3Rotate60ccw(h)
             ELSE h,
             numRots)
    ELSE Rotate60ccwTimes(h, numRots)

\* The part of _faceIjkToH3 after the digit loop.
FaceIjkBaseCell(h, fijkBC) ==
    IF Evaluated(h) /\ PastMaxFaceCoord(fijkBC.coord) THEN H3_NULL
    ELSE FaceIjkRotate(H3_SET_BASE_CELL(h, _faceIjkToBaseCell(fijkBC)),
                       _faceIjkToBaseCell(fijkBC), fijkBC.face,
                       _faceIjkToBaseCellCCWrot60(fijkBC))

\* The outcomes of a call whose digit loop gave w: a build with overflow
\* checks panics at the first overflow, a build without them goes on with the
\* wrapped values.
FaceIjkOutcomes(face, w) ==
    (IF w.overflow THEN {[panic |-> TRUE, h |-> H3_NULL]} ELSE {})
    \cup {[panic |-> FALSE, h |-> FaceIjkBaseCell(w.h, FaceIJK(face, w.ijk))]}

\* _faceIjkToH3: the set of the results the builds can produce.
_faceIjkToH3(fijk, res) ==
    IF res = 0
    THEN {[panic |-> FALSE,
           h |-> IF PastMaxFaceCoord(fijk.coord) THEN H3_NULL
                 ELSE H3_SET_BASE_CELL(
                          H3_SET_RESOLUTION(H3_SET_MODE(H3_INIT, H3_CELL_MODE), res),
                          _faceIjkToBaseCell(fijk))]}
    ELSE FaceIjkOutcomes(fijk.face,
             FaceIjkDigits(H3_SET_RESOLUTION(H3_SET_MODE(H3_INIT, H3_CELL_MODE), res),
                           fijk.coord, res - 1))

\* One pass of the loop of _h3ToFaceIjkWithInitializedFijk, for the digit r:
\* the ijk of the center child, then a step in the direction of the digit.
H3ToIjkPass(h, coord, r) ==
    _neighbor(IF isResolutionClassIII(r) THEN _downAp7(coord) ELSE _downAp7r(coord),
              H3_GET_INDEX_DIGIT(h, r))

\* The passes for r = first up to last, taken in two halves.
RECURSIVE H3ToIjkPasses(_, _, _, _)
H3ToIjkPasses(h, coord, first, last) ==
    IF Evaluated(coord) /\ first > last THEN coord
    ELSE IF first = last THEN H3ToIjkPass(h, coord, first)
    ELSE H3ToIjkPasses(h,
             H3ToIjkPasses(h, coord, first, (first + last) \div 2),
             (first + last) \div 2 + 1, last)

\* The loop of _h3ToFaceIjkWithInitializedFijk from the digit r on.
H3ToIjkFrom(h, coord, r) == H3ToIjkPasses(h, coord, r, H3_GET_RESOLUTION(h))

\* _h3ToFaceIjkWithInitializedFijk: the new fijk, and whether an overage is
\* possible.
_h3ToFaceIjkWithInitializedFijk(h, fijk) ==
    [fijk |-> FaceIJK(fijk.face, H3ToIjkFrom(h, fijk.coord, 1)),
     possibleOverage |->
        ~(/\ ~_isBaseCellPentagon(H3_GET_BASE_CELL(h))
          /\ (H3_GET_RESOLUTION(h) = 0
              \/ (fijk.coord.i = 0 /\ fijk.coord.j = 0 /\ fijk.coord.k = 0)))]

\* The quadrants of faceNeighbors.
IJ == 1
KI == 2
JK == 3

\* for i in 0..n { _ijkRotate60ccw(ijk) }
RECURSIVE IjkRotate60ccwTimes(_, _)
IjkRotate60ccwTimes(ijk, n) ==
    IF Evaluated(ijk) /\ n <= 0 THEN ijk ELSE IjkRotate60ccwTimes(_ijkRotate60ccw(ijk), n - 1)

\* The adjustment of _adjustOverageClassII for the pentagonal missing
\* sequence: a clockwise rotation about the center of the pentagon.
PentLeading4Adjust(ijk, maxDim) ==
    _ijkAdd(_ijkRotate60cw(_ijkSub(ijk, CoordIJK(maxDim, 0, 0))),
            CoordIJK(maxDim, 0, 0))

\* The entry of faceNeighbors that _adjustOverageClassII selects.
OverageQuadrant(ijk) ==
    IF ijk.k > 0 THEN (IF ijk.j > 0 THEN JK ELSE KI) ELSE IJ

\* A variant of OverageIjk without the adjustment for the missing sequence
\* of a pentagon.
OverageIjk_noPentagonAdjust(ijk, maxDim, pentLeading4) == ijk

\* The ijk that is rotated and translated into the adjacent face.
OverageIjk(ijk, maxDim, pentLeading4) ==
    IF OverageQuadrant(ijk) = KI /\ pentLeading4
    THEN PentLeading4Adjust(ijk, maxDim) ELSE ijk

\* Rotate and translate for the adjacent face fijkOrient.
OverageMove(ijk, fijkOrient, unitScale) ==
    FaceIJK(fijkOrient[1],
        _ijkNormalize(_ijkAdd(IjkRotate60ccwTimes(ijk, fijkOrient[5]),
            _ijkScale(CoordIJK(fijkOrient[2], fijkOrient[3], fijkOrient[4]),
                      unitScale))))

\* The result of an overage onto a new face.
OverageNewFace(moved, substrate, maxDim) ==
    [overage |-> IF substrate /\ moved.coord.i + moved.coord.j + moved.coord.k = maxDim
                 THEN "FaceEdge" ELSE "NewFace",
     fijk |-> moved]

AdjustOverageWith(fijk, pentLeading4, substrate, maxDim, unitScale) ==
    IF Evaluated(fijk) /\ substrate /\ fijk.coord.i + fijk.coord.j + fijk.coord.k = maxDim
    THEN [overage |-> "FaceEdge", fijk |-> fijk]
    ELSE IF fijk.coord.i + fijk.coord.j + fijk.coord.k > maxDim
    THEN OverageNewFace(
             OverageMove(OverageIjk(fijk.coord, maxDim, pentLeading4),
                         faceNeighbors[fijk.face + 1][OverageQuadrant(fijk.coord) + 1],
                         unitScale),
             substrate, maxDim)
    ELSE [overage |-> "NoOverage", fijk |-> fijk]

\* _adjustOverageClassII: the kind of overage and the adjusted fijk.
_adjustOverageClassII(fijk, res, pentLeading4, substrate) ==
    AdjustOverageWith(fijk, pentLeading4, substrate,
        IF substrate THEN 3 * maxDimByCIIres[res + 1] ELSE maxDimByCIIres[res + 1],
        IF substrate THEN 3 * unitScaleByCIIres[res + 1] ELSE unitScaleByCIIres[res + 1])

\* while _adjustOverageClassII(&mut fijk, res, false, false) != NoOverage {}
RECURSIVE SecondaryOverages(_, _)
SecondaryOverages(fijk, res) ==
    IF Evaluated(fijk) /\ _adjustOverageClassII(fijk, res, FALSE, FALSE).overage = "NoOverage"
    THEN fijk
    ELSE SecondaryOverages(_adjustOverageClassII(fijk, res, FALSE, FALSE).fijk, res)

\* The fijk after the secondary overages of a pentagon base cell.
PentagonOverages(h, fijk, res) ==
    IF _isBaseCellPentagon(H3_GET_BASE_CELL(h))
    THEN SecondaryOverages(fijk, res) ELSE fijk

\* if res != H3_GET_RESOLUTION(h) { _upAp7r(&mut fijk.coord) }
OverageUpAp7r(h, fijk, res) ==
    IF Evaluated(fijk) /\ res # H3_GET_RESOLUTION(h)
    THEN FaceIJK(fijk.face, _upAp7r(fijk.coord)) ELSE fijk

\* The part of _h3ToFaceIjk after the first call of _adjustOverageClassII,
\* whose result is first: res is the Class II resolution.
H3ToFaceIjkAdjusted(h, origIJK, res, first) ==
    IF Evaluated(first) /\ first.overage # "NoOverage"
    THEN OverageUpAp7r(h, PentagonOverages(h, first.fijk, res), res)
    ELSE IF res # H3_GET_RESOLUTION(h)
    THEN FaceIJK(first.fijk.face, origIJK)
    ELSE first.fijk

\* The part of _h3ToFaceIjk after _h3ToFaceIjkWithInitializedFijk, whose
\* result is w: the drop into the next finer Class II grid and the overage.
H3ToFaceIjkOverage(h, w) ==
    IF Evaluated(h) /\ Evaluated(w) /\ ~w.possibleOverage THEN w.fijk
    ELSE IF isResolutionClassIII(H3_GET_RESOLUTION(h))
    THEN H3ToFaceIjkAdjusted(h, w.fijk.coord, H3_GET_RESOLUTION(h) + 1,
             _adjustOverageClassII(FaceIJK(w.fijk.face, _downAp7r(w.fijk.coord)),
                 H3_GET_RESOLUTION(h) + 1,
                 _isBaseCellPentagon(H3_GET_BASE_CELL(h))
                    /\ _h3LeadingNonZeroDigit(h) = 4,
                 FALSE))
    ELSE H3ToFaceIjkAdjusted(h, w.fijk.coord, H3_GET_RESOLUTION(h),
             _adjustOverageClassII(w.fijk, H3_GET_RESOLUTION(h),
                 _isBaseCellPentagon(H3_GET_BASE_CELL(h))
                    /\ _h3LeadingNonZeroDigit(h) = 4,
                 FALSE))

\* baseCellData[baseCell].homeFijk
homeFijk(baseCell) ==
    FaceIJK(baseCellData[baseCell + 1][1],
            CoordIJK(baseCellData[baseCell + 1][2], baseCellData[baseCell + 1][3],
                     baseCellData[baseCell + 1][4]))

\* The index with the pentagonal missing sequence adjusted: sub-sequence 5
\* is rotated clockwise.
H3ToFaceIjkRotated(h) ==
    IF _isBaseCellPentagon(H3_GET_BASE_CELL(h)) /\ _h3LeadingNonZeroDigit(h) = 5
    THEN _h3Rotate60cw(h) ELSE h

FijkOk(fijk) == [ok |-> TRUE, err |-> "", fijk |-> fijk]
FijkErr(e) == [ok |-> FALSE, err |-> e, fijk |-> FaceIJK(0, CoordIJK(0, 0, 0))]

\* _h3ToFaceIjk for the index with the missing sequence adjusted.
H3ToFaceIjkFromHome(h) ==
    H3ToFaceIjkOverage(h,
        _h3ToFaceIjkWithInitializedFijk(h, homeFijk(H3_GET_BASE_CELL(h))))

\* _h3ToFaceIjk
_h3ToFaceIjk(h) ==
    IF H3_GET_BASE_CELL(h) < 0 \/ H3_GET_BASE_CELL(h) >= NUM_BASE_CELLS
    THEN FijkErr("CellInvalid")
    ELSE FijkOk(H3ToFaceIjkFromHome(H3ToFaceIjkRotated(h)))

(***************************************************************************)
(* directed_edge.rs and directionForNeighbor                               *)
(***************************************************************************)
\* Result<H3Index, Error>
EdgeOk(h) == [ok |-> TRUE, err |-> "", h |-> h]
EdgeErr(e) == [ok |-> FALSE, err |-> e, h |-> H3_NULL]

\* The loop of directionForNeighbor from direction on: the first direction
\* whose neighbor is the destination; errors of h3NeighborRotations are
\* skipped.
RECURSIVE DirectionFrom(_, _, _)
DirectionFrom(origin, destination, direction) ==
    IF direction >= InvalidDigit THEN InvalidDigit
    ELSE IF h3NeighborRotations(origin, direction, 0).ok
            /\ h3NeighborRotations(origin, direction, 0).h = destination
    THEN direction
    ELSE DirectionFrom(origin, destination, direction + 1)

\* The variant that starts at K for pentagons too.
directionForNeighbor_fromK(origin, destination) ==
    DirectionFrom(origin, destination, KAxesDigit)

directionForNeighbor(origin, destination) ==
    DirectionFrom(origin, destination,
                  IF isPentagon(origin) THEN JAxesDigit ELSE KAxesDigit)

\* The variant that reports a direction for the origin itself.
CellsToDirectedEdgeOf_centerForOrigin(origin, destination, direction) ==
    IF direction = InvalidDigit /\ origin # destination
    THEN EdgeErr("NotNeighbors")
    ELSE EdgeOk(H3_SET_RESERVED_BITS(H3_SET_MODE(origin, H3_DIRECTEDEDGE_MODE),
                                     direction % InvalidDigit))

CellsToDirectedEdgeOf(origin, destination, direction) ==
    IF direction = InvalidDigit THEN EdgeErr("NotNeighbors")
    ELSE EdgeOk(H3_SET_RESERVED_BITS(H3_SET_MODE(origin, H3_DIRECTEDEDGE_MODE),
                                     direction))

cellsToDirectedEdge(origin, destination) ==
    CellsToDirectedEdgeOf(origin, destination,
                          directionForNeighbor(origin, destination))

getDirectedEdgeOrigin(edge) ==
    IF H3_GET_MODE(edge) # H3_DIRECTEDEDGE_MODE
    THEN EdgeErr("DirectedEdgeInvalid")
    ELSE EdgeOk(H3_SET_RESERVED_BITS(H3_SET_MODE(edge, H3_CELL_MODE), 0))

\* The tail of getDirectedEdgeDestination once the origin is known.
DestinationFrom(origin, neighbor) ==
    IF ~origin.ok THEN origin
    ELSE IF neighbor.ok THEN EdgeOk(neighbor.h) ELSE EdgeErr(neighbor.err)

getDirectedEdgeDestination(edge) ==
    DestinationFrom(getDirectedEdgeOrigin(edge),
                    h3NeighborRotations(getDirectedEdgeOrigin(edge).h,
                                        H3_GET_RESERVED_BITS(edge), 0))

\* The variant without the rule for the K direction of pentagons.
isValidDirectedEdge_noPentagonRule(edge) ==
    IF H3_GET_RESERVED_BITS(edge) <= CenterDigit
       \/ H3_GET_RESERVED_BITS(edge) >= NUM_DIGITS
    THEN FALSE
    ELSE IF ~getDirectedEdgeOrigin(edge).ok THEN FALSE
    ELSE isValidCell(getDirectedEdgeOrigin(edge).h)

isValidDirectedEdge(edge) ==
    IF H3_GET_RESERVED_BITS(edge) <= CenterDigit
       \/ H3_GET_RESERVED_BITS(edge) >= NUM_DIGITS
    THEN FALSE
    ELSE IF ~getDirectedEdgeOrigin(edge).ok THEN FALSE
    ELSE IF isPentagon(getDirectedEdgeOrigin(edge).h)
            /\ H3_GET_RESERVED_BITS(edge) = KAxesDigit
    THEN FALSE
    ELSE isValidCell(getDirectedEdgeOrigin(edge).h)

\* Result<(H3Index, H3Index), Error>
CellsOk(origin, destination) ==
    [ok |-> TRUE, err |-> "", origin |-> origin, destination |-> destination]
CellsErr(e) ==
    [ok |-> FALSE, err |-> e, origin |-> H3_NULL, destination |-> H3_NULL]

\* The variant that validates the edge first.
DirectedEdgeToCellsOf_validated(edge, originResult, destinationResult) ==
    IF ~isValidDirectedEdge(edge) THEN CellsErr("DirectedEdgeInvalid")
    ELSE IF ~destinationResult.ok THEN CellsErr(destinationResult.err)
    ELSE CellsOk(originResult.h, destinationResult.h)

DirectedEdgeToCellsOf(edge, originResult, destinationResult) ==
    IF ~originResult.ok THEN CellsErr(originResult.err)
    ELSE IF ~destinationResult.ok THEN CellsErr(destinationResult.err)
    ELSE CellsOk(originResult.h, destinationResult.h)

directedEdgeToCells(edge) ==
    DirectedEdgeToCellsOf(edge, getDirectedEdgeOrigin(edge),
                          getDirectedEdgeDestination(edge))

\* The variant that numbers the slots from direction 0.
OriginEdgeSlot_fromCenter(origin, i) ==
    IF isPentagon(origin) /\ i = 0 THEN H3_NULL
    ELSE H3_SET_RESERVED_BITS(H3_SET_MODE(origin, H3_DIRECTEDEDGE_MODE), i)

\* The slot i (0..5) of originToDirectedEdges.
OriginEdgeSlot(origin, i) ==
    IF isPentagon(origin) /\ i = 0 THEN H3_NULL
    ELSE H3_SET_RESERVED_BITS(H3_SET_MODE(origin, H3_DIRECTEDEDGE_MODE), i + 1)

\* The array [H3Index; 6], as a sequence (slot i at position i + 1).
originToDirectedEdges(origin) == [i \in 1..6 |-> OriginEdgeSlot(origin, i - 1)]

(***************************************************************************)
(* Children of a cell (h3_index.rs, iterators.rs)                          *)
(***************************************************************************)
_hasChildAtRes(h, childRes) ==
    ~(childRes < H3_GET_RESOLUTION(h) \/ childRes > MAX_H3_RES)

\* 7^n as an exact natural number.
RECURSIVE WidePow7(_)
WidePow7(n) == IF n = 0 THEN WideOfNat(1) ELSE WideMul(WideOfNat(7), WidePow7(n - 1))

\* Whether the non-negative exact value a is outside the range of i32.
OverflowsI32(a) == a[4] >= 128 \/ \E i \in 5..WideLen : a[i] # 0

\* The i32 that wrapping arithmetic leaves for the exact value a: its low 32
\* bits, read as a two's complement number.
WrapToI32(a) ==
    IF a[4] >= 128
    THEN -((255 - a[4]) * 16777216 + (255 - a[3]) * 65536
           + (255 - a[2]) * 256 + (255 - a[1])) - 1
    ELSE a[4] * 16777216 + a[3] * 65536 + a[2] * 256 + a[1]

\* Division of i32 by a positive divisor: the quotient is truncated towards 0.
DivI32(a, b) == IF a >= 0 THEN a \div b ELSE -((-a) \div b)

\* Result<i64, Error>; panic marks a call that panicked instead of returning.
SizeOk(size) == [ok |-> TRUE, err |-> "", panic |-> FALSE, size |-> size]
SizeErr(e) == [ok |-> FALSE, err |-> e, panic |-> FALSE, size |-> 0]
SizePanic == [ok |-> FALSE, err |-> "", panic |-> TRUE, size |-> 0]

\* The variant that counts the children of a pentagon as those of a hexagon.
ChildrenSizeOf_hexagonOnly(pentagon, pow7) == SizeOk(pow7)

\* The value cellToChildrenSize returns once 7i32.pow(n) = pow7 is known. For
\* every i32 pow7 the operations - 1, / 6, 5 * and 1 + stay within i32.
ChildrenSizeOf(pentagon, pow7) ==
    IF pentagon THEN SizeOk(1 + 5 * DivI32(pow7 - 1, 6)) ELSE SizeOk(pow7)

\* 7i32.pow(n) with exact value exact: when it is out of the range of i32, a
\* build with overflow checks panics and a build without them wraps.
ChildrenSizeFrom(pentagon, exact) ==
    IF OverflowsI32(exact)
    THEN {SizePanic, ChildrenSizeOf(pentagon, WrapToI32(exact))}
    ELSE {ChildrenSizeOf(pentagon, WrapToI32(exact))}

\* The set of the results the builds of cellToChildrenSize can give.
cellToChildrenSize(h, childRes) ==
    IF ~_hasChildAtRes(h, childRes) THEN {SizeErr("ResDomain")}
    ELSE ChildrenSizeFrom(isPentagon(h), WidePow7(childRes - H3_GET_RESOLUTION(h)))

\* The digits start..end set to 0; no change if start > end.
_zeroIndexDigits(h, start, end) ==
    IF start > end THEN h
    ELSE [h EXCEPT !.dig = [r \in 1..MAX_H3_RES |->
                               IF start <= r /\ r <= end THEN 0 ELSE h.dig[r]]]

\* h + (1 << 45 * k) for the fields above the digits: the carry out of the
\* base cell goes into the resolution, the reserved bits, the mode and the
\* high bit (the carry out of bit 63, which needs all 64 bits set, wraps).
IncrementBaseCell(h) ==
    IF h.bc < 127 THEN [h EXCEPT !.bc = h.bc + 1]
    ELSE IF h.res < 15 THEN [h EXCEPT !.bc = 0, !.res = h.res + 1]
    ELSE IF h.rsv < 7 THEN [h EXCEPT !.bc = 0, !.res = 0, !.rsv = h.rsv + 1]
    ELSE IF h.mode < 15
    THEN [h EXCEPT !.bc = 0, !.res = 0, !.rsv = 0, !.mode = h.mode + 1]
    ELSE [h EXCEPT !.bc = 0, !.res = 0, !.rsv = 0, !.mode = 0, !.hb = 1 - h.hb]

\* _incrementResDigit: h += 1 << (3 * (MAX_H3_RES - res)), a 64-bit addition:
\* a digit 7 becomes 0 and the carry goes to the digit before it.
RECURSIVE _incrementResDigit(_, _)
_incrementResDigit(h, res) ==
    IF res = 0 THEN IncrementBaseCell(h)
    ELSE IF h.dig[res] < 7 THEN [h EXCEPT !.dig[res] = h.dig[res] + 1]
    ELSE _incrementResDigit([h EXCEPT !.dig[res] = 0], res - 1)

\* struct IterCellsChildren
IterCells(h, parentRes, skipDigit) ==
    [h |-> h, _parentRes |-> parentRes, _skipDigit |-> skipDigit]

_null_iter == IterCells(H3_NULL, -1, -1)

\* from_parent after the checks, h being zeroed and set to childRes.
FromParentAt(h, parentRes, childRes) ==
    IterCells(h, parentRes, IF isPentagon(h) THEN childRes ELSE -1)

from_parent(h, childRes) ==
    IF childRes < H3_GET_RESOLUTION(h) \/ childRes > MAX_H3_RES \/ h = H3_NULL
    THEN _null_iter
    ELSE FromParentAt(
             H3_SET_RESOLUTION(
                 _zeroIndexDigits(h, H3_GET_RESOLUTION(h) + 1, childRes), childRes),
             H3_GET_RESOLUTION(h), childRes)

\* Option<H3Index> with the iterator after the call.
IterSome(it, item) == [it |-> it, some |-> TRUE, item |-> item]
IterNone(it) == [it |-> it, some |-> FALSE, item |-> H3_NULL]

\* The variant that does not skip the digit K in the children of a pentagon.
RECURSIVE IterCarry_noSkip(_, _, _)
IterCarry_noSkip(it, i, item) ==
    IF i = it._parentRes THEN IterSome(_null_iter, item)
    ELSE IF it.h.dig[i] = InvalidDigit
    THEN IterCarry_noSkip([it EXCEPT !.h = _incrementResDigit(it.h, i)], i - 1, item)
    ELSE IterSome(it, item)

\* The loop of next: for i in (parentRes..childRes + 1).rev(), from i on;
\* item is the cell the call returns.
RECURSIVE IterCarry(_, _, _)
IterCarry(it, i, item) ==
    IF i = it._parentRes THEN IterSome(_null_iter, item)
    ELSE IF i = it._skipDigit /\ it.h.dig[i] = KAxesDigit
    THEN IterSome([it EXCEPT !.h = _incrementResDigit(it.h, i),
                             !._skipDigit = it._skipDigit - 1], item)
    ELSE IF it.h.dig[i] = InvalidDigit
    THEN IterCarry([it EXCEPT !.h = _incrementResDigit(it.h, i)], i - 1, item)
    ELSE IterSome(it, item)

\* IterCellsChildren::next
IterNextOf(it) ==
    IF it.h = H3_NULL THEN IterNone(it)
    ELSE IterCarry([it EXCEPT !.h = _incrementResDigit(it.h, H3_GET_RESOLUTION(it.h))],
                   H3_GET_RESOLUTION(it.h), it.h)

\* pow(7, n) in i64: 7^15 is within i64. The positions of the model keep
\* n <= MaxChildDepth + 1.
RECURSIVE Pow7(_)
Pow7(n) == IF n = 0 THEN 1 ELSE 7 * Pow7(n - 1)

\* n calls of next on the iterator of run, the items returned appended to
\* those of run; an exhausted iterator returns no more items. The calls are
\* split in two halves.
RECURSIVE IterRun(_, _)
IterRunStep(run, step) ==
    [it |-> step.it,
     items |-> IF step.some THEN Append(run.items, step.item) ELSE run.items]

IterRun(run, n) ==
    IF run.it.h = H3_NULL \/ n <= 0 THEN run
    ELSE IF n = 1 THEN IterRunStep(run, IterNextOf(run.it))
    ELSE IterRun(IterRun(run, n \div 2), n - n \div 2)

\* The list cellToChildren returns when its loop over the iterator has
\* ended; "Unfinished" marks a loop that needs more calls of next than
\* budgeted (it does not occur).
ChildrenOf(run) ==
    IF run.it.h = H3_NULL THEN TraverseOk(run.items) ELSE TraverseErr("Unfinished")

\* The for loop of cellToChildren, within 7^n + 2 calls of next for n
\* resolutions between parent and child.
ChildrenFrom(it, n) ==
    ChildrenOf(IterRun([it |-> it, items |-> <<>>], IF n >= 0 THEN Pow7(n) + 2 ELSE 1))

\* The variant that refuses a child resolution out of the domain.
cellToChildren_checked(h, childRes) ==
    IF ~_hasChildAtRes(h, childRes) THEN TraverseErr("ResDomain")
    ELSE ChildrenFrom(from_parent(h, childRes), childRes - H3_GET_RESOLUTION(h))

cellToChildren(h, childRes) ==
    ChildrenFrom(from_parent(h, childRes), childRes - H3_GET_RESOLUTION(h))
\* The hexagon loop of childPosToCell: for res in 1..(resOffset + 1), from res.
RECURSIVE ChildPosHex(_, _, _, _, _)
ChildPosHex(child, idx, parentRes, resOffset, res) ==
    IF res > resOffset THEN child
    ELSE ChildPosHex(
             H3_SET_INDEX_DIGIT(child, parentRes + res,
                                idx \div Pow7(resOffset - res)),
             idx % Pow7(resOffset - res), parentRes, resOffset, res + 1)

\* The variant that does not offset the digit for the skipped direction K.
ChildPosPent_noOffset(child, idx, parentRes, resOffset, res) ==
    ChildPosHex(child, idx, parentRes, resOffset, res)

\* The pentagon loop of childPosToCell while inPent holds, from res;
\* resWidth is pow(7, resOffset - res) and pentWidth 1 + (5 * (resWidth - 1)) / 6.
RECURSIVE ChildPosPent(_, _, _, _, _)
ChildPosPent(child, idx, parentRes, resOffset, res) ==
    IF res > resOffset THEN child
    ELSE IF idx < 1 + (5 * (Pow7(resOffset - res) - 1)) \div 6
    THEN ChildPosPent(H3_SET_INDEX_DIGIT(child, parentRes + res, 0),
                      idx, parentRes, resOffset, res + 1)
    ELSE ChildPosHex(
             H3_SET_INDEX_DIGIT(
                 child, parentRes + res,
                 (idx - (1 + (5 * (Pow7(resOffset - res) - 1)) \div 6))
                     \div Pow7(resOffset - res) + 2),
             (idx - (1 + (5 * (Pow7(resOffset - res) - 1)) \div 6))
                 % Pow7(resOffset - res),
             parentRes, resOffset, res + 1)

\* Result<H3Index, Error>; panic marks a call that panicked.
PosOk(h) == [ok |-> TRUE, err |-> "", panic |-> FALSE, h |-> h]
PosErr(e) == [ok |-> FALSE, err |-> e, panic |-> FALSE, h |-> H3_NULL]
PosPanic == [ok |-> FALSE, err |-> "", panic |-> TRUE, h |-> H3_NULL]

\* validateChildPos followed by the rest of childPosToCell, for one result
\* maxChildCount of cellToChildrenSize.
ChildPosWith(maxChildCount, childPos, parent, childRes) ==
    IF maxChildCount.panic THEN PosPanic
    ELSE IF ~maxChildCount.ok THEN PosErr(maxChildCount.err)
    ELSE IF childPos < 0 \/ childPos >= maxChildCount.size THEN PosErr("Domain")
    ELSE IF isPentagon(parent)
    THEN PosOk(ChildPosPent(H3_SET_RESOLUTION(parent, childRes), childPos,
                            H3_GET_RESOLUTION(parent),
                            childRes - H3_GET_RESOLUTION(parent), 1))
    ELSE PosOk(ChildPosHex(H3_SET_RESOLUTION(parent, childRes), childPos,
                           H3_GET_RESOLUTION(parent),
                           childRes - H3_GET_RESOLUTION(parent), 1))

\* The set of the results the builds of childPosToCell can give.
childPosToCell(childPos, parent, childRes) ==
    IF childRes < 0 \/ childRes > MAX_H3_RES THEN {PosErr("ResDomain")}
    ELSE IF childRes < H3_GET_RESOLUTION(parent) THEN {PosErr("ResMismatch")}
    ELSE {ChildPosWith(maxChildCount, childPos, parent, childRes) :
            maxChildCount \in cellToChildrenSize(parent, childRes)}

(***************************************************************************)
(* Inputs of the operations                                                *)
(***************************************************************************)
\* Bounds of the model.
MaxRes == 2                 \* deepest resolution of the sampled origin cells
NumOriginBaseCells == 4     \* base cells whose cells of resolution <= MaxRes are origins
MaxK == 2                   \* largest disk / ring radius
MaxEdits == 1               \* field overwrites applied to a built index

\* Every digit string of length n over 0..6.
RECURSIVE DigitStrings(_)
DigitStrings(n) ==
    IF n = 0 THEN {<<>>}
    ELSE {Append(s, d) : s \in DigitStrings(n - 1), d \in 0..(NUM_DIGITS - 1)}

\* The index of the given base cell whose digits 1..Len(s) are s.
CellOf(baseCell, s) ==
    [setH3Index(Len(s), baseCell, 0) EXCEPT !.dig =
        [r \in 1..MAX_H3_RES |-> IF r <= Len(s) THEN s[r] ELSE InvalidDigit]]

\* getRes0Cells: the 122 resolution 0 cells, element bc + 1 for base cell bc.
getRes0Cells ==
    [bc \in 1..NUM_BASE_CELLS |->
        H3_SET_BASE_CELL(H3_SET_MODE(H3_INIT, H3_CELL_MODE), bc - 1)]

\* The pentagon cells of every resolution: setH3Index(res, bc, 0) of the
\* pentagon base cells.
PentagonCells ==
    {setH3Index(res, bc, 0) : res \in 0..MAX_H3_RES,
        bc \in {b \in 0..(NUM_BASE_CELLS - 1) : _isBaseCellPentagon(b)}}

\* The base cells sampled in full, in the order they are taken: the polar
\* pentagon 4, the pentagon 14, base cell 9 (whose home face is a clockwise
\* offset face of 14), base cell 8 (which h3NeighborRotations names in its
\* polar case), then hexagons around them.
SampledBaseCells == <<4, 14, 9, 8, 0, 17, 3, 15>>

\* The origin cells: every resolution 0 cell, every pentagon, and every
\* valid cell of resolution <= MaxRes in the first NumOriginBaseCells of
\* the sampled base cells.
OriginCells ==
    {getRes0Cells[i] : i \in 1..NUM_BASE_CELLS}
    \cup PentagonCells
    \cup {h \in {CellOf(SampledBaseCells[b], s) : b \in 1..NumOriginBaseCells,
                   s \in UNION {DigitStrings(n) : n \in 0..MaxRes}} :
            isValidCell(h)}

\* Indexes that are not valid cells: a base cell past the last one, and a
\* digit 7 within the resolution.
InvalidOrigins ==
    {H3_SET_BASE_CELL(getRes0Cells[1], NUM_BASE_CELLS), setH3Index(1, 0, InvalidDigit)}

NoArg == [dir |-> 0, rotations |-> 0, k |-> 0, edits |-> 0]
NoRet == [ok |-> TRUE, err |-> ""]

(***************************************************************************)
(* Spec: the disk and ring traversals applied to an origin cell            *)
(***************************************************************************)
Init ==
    /\ cell \in OriginCells \cup InvalidOrigins
    /\ op = "init"
    /\ arg = NoArg
    /\ ret = NoRet

DiskUnsafe ==
    /\ op = "init"
    /\ \E k \in 0..MaxK :
        /\ arg' = [NoArg EXCEPT !.k = k]
        /\ ret' = gridDiskDistancesUnsafe(cell, k)
    /\ op' = "gridDiskDistancesUnsafe"
    /\ UNCHANGED cell

Disk ==
    /\ op = "init"
    /\ \E k \in 0..MaxK :
        /\ arg' = [NoArg EXCEPT !.k = k]
        /\ ret' = gridDiskDistances(cell, k)
    /\ op' = "gridDiskDistances"
    /\ UNCHANGED cell

Ring ==
    /\ op = "init"
    /\ \E k \in 0..MaxK :
        /\ arg' = [NoArg EXCEPT !.k = k]
        /\ ret' = gridRingUnsafe(cell, k)
    /\ op' = "gridRingUnsafe"
    /\ UNCHANGED cell

Next == DiskUnsafe \/ Disk \/ Ring

Spec == Init /\ [][Next]_vars

(***************************************************************************)
(* SpecNeighbor: one neighbor step applied to an origin cell               *)
(***************************************************************************)
Neighbor ==
    /\ op = "init"
    /\ \E dir \in CenterDigit..IJAxesDigit, rotations \in 0..5 :
        /\ arg' = [NoArg EXCEPT !.dir = dir, !.rotations = rotations]
        /\ ret' = h3NeighborRotations(cell, dir, rotations)
    /\ op' = "h3NeighborRotations"
    /\ UNCHANGED cell

NextNeighbor == Neighbor

SpecNeighbor == Init /\ [][NextNeighbor]_vars

(***************************************************************************)
(* SpecValid: isValidCell applied to 64-bit values, valid and not: an      *)
(* index built by setH3Index with up to MaxEdits fields overwritten        *)
(***************************************************************************)
InitValid ==
    /\ cell \in {setH3Index(res, bc, digit) :
                    res \in 0..MAX_H3_RES, bc \in {0, 4, 121}, digit \in {0, 2}}
    /\ op = "init"
    /\ arg = NoArg
    /\ ret = NoRet

Edited(h) ==
    /\ op \in {"init", "edit"}
    /\ arg.edits < MaxEdits
    /\ cell' = h
    /\ op' = "edit"
    /\ arg' = [arg EXCEPT !.edits = arg.edits + 1]
    /\ UNCHANGED ret

SetHighBit == \E v \in 0..1 : Edited(H3_SET_HIGH_BIT(cell, v))
SetMode == \E v \in {0, H3_CELL_MODE, H3_DIRECTEDEDGE_MODE, 15} :
               Edited(H3_SET_MODE(cell, v))
SetReservedBits == \E v \in 0..7 : Edited(H3_SET_RESERVED_BITS(cell, v))
SetResolution == \E v \in 0..MAX_H3_RES : Edited(H3_SET_RESOLUTION(cell, v))
SetBaseCell ==
    \E v \in {0, 4, 14, 117, NUM_BASE_CELLS - 1, NUM_BASE_CELLS, INVALID_BASE_CELL} :
        Edited(H3_SET_BASE_CELL(cell, v))
SetIndexDigit ==
    \E r \in 1..MAX_H3_RES, d \in {CenterDigit, KAxesDigit, IJAxesDigit, InvalidDigit} :
        Edited(H3_SET_INDEX_DIGIT(cell, r, d))

IsValidCell ==
    /\ op \in {"init", "edit"}
    /\ ret' = [ok |-> TRUE, err |-> "", flag |-> isValidCell(cell)]
    /\ op' = "isValidCell"
    /\ UNCHANGED <<cell, arg>>

NextValid ==
    \/ SetHighBit \/ SetMode \/ SetReservedBits \/ SetResolution
    \/ SetBaseCell \/ SetIndexDigit
    \/ IsValidCell

SpecValid == InitValid /\ [][NextValid]_vars

(***************************************************************************)
(* SpecSize: maxGridDiskSize applied to a 32-bit unsigned k                *)
(***************************************************************************)
\* The bytes the argument k is drawn from, per position (b0 least
\* significant): small values, the largest k whose size fits i64
\* (0x6882F5BF = 1753413055), its successor, and the ends of the range.
KByte0 == {0, 1, 2, 3, 191, 192, 255}
KByte1 == {0, 1, 245, 255}
KByte2 == {0, 130, 255}
KByte3 == {0, 104, 127, 128, 255}

InitSize ==
    /\ cell \in {WideOfU32(b0, b1, b2, b3) :
                    b0 \in KByte0, b1 \in KByte1, b2 \in KByte2, b3 \in KByte3}
    /\ op = "init"
    /\ arg = NoArg
    /\ ret = NoRet

MaxGridDiskSize ==
    /\ op = "init"
    /\ ret' \in maxGridDiskSizeI64(cell)
    /\ op' = "maxGridDiskSize"
    /\ UNCHANGED <<cell, arg>>

NextSize == MaxGridDiskSize

SpecSize == InitSize /\ [][NextSize]_vars

(***************************************************************************)
(* SpecEdge: directed edges made from an origin cell                       *)
(***************************************************************************)
\* The cells of a traversal result: of pairs <<cell, distance>> (a disk) or
\* of cells (a ring).
DiskCells(r) == {r.out[i][1] : i \in 1..Len(r.out)}
RingCells(r) == {r.out[i] : i \in 1..Len(r.out)}

\* The destinations tried for an origin: the origin, the cells up to grid
\* distance MaxK, the cells of the rings gridRingUnsafe gives, and 0.
Destinations(origin) ==
    {origin, H3_NULL}
    \cup DiskCells(gridDiskDistances(origin, MaxK))
    \cup UNION {RingCells(gridRingUnsafe(origin, k)) : k \in 1..MaxK}

CellsToDirectedEdge ==
    /\ op = "init"
    /\ \E destination \in Destinations(cell) :
        /\ arg' = [destination |-> destination]
        /\ ret' = cellsToDirectedEdge(cell, destination)
    /\ op' = "cellsToDirectedEdge"
    /\ UNCHANGED cell

OriginToDirectedEdges ==
    /\ op = "init"
    /\ ret' = [ok |-> TRUE, err |-> "", edges |-> originToDirectedEdges(cell)]
    /\ op' = "originToDirectedEdges"
    /\ UNCHANGED <<cell, arg>>

NextEdge == CellsToDirectedEdge \/ OriginToDirectedEdges

SpecEdge == Init /\ [][NextEdge]_vars

(***************************************************************************)
(* SpecEdgeCells: the functions that take a directed edge                  *)
(***************************************************************************)
\* Indexes isValidCell rejects, beside InvalidOrigins: the high bit set, an
\* invalid digit within the resolution, a digit other than 7 past the
\* resolution, and a pentagon base cell with leading digit K.
InvalidCells ==
    InvalidOrigins
    \cup {H3_SET_HIGH_BIT(setH3Index(1, 8, JAxesDigit), 1),
          setH3Index(2, 8, InvalidDigit),
          H3_SET_INDEX_DIGIT(setH3Index(1, 8, JAxesDigit), 3, CenterDigit),
          setH3Index(1, 4, KAxesDigit),
          H3_SET_INDEX_DIGIT(setH3Index(2, 14, CenterDigit), 2, KAxesDigit)}

\* The edge arguments: every origin with either mode and every value of the
\* reserved bits, and 0.
EdgeInputs ==
    {H3_NULL}
    \cup {H3_SET_RESERVED_BITS(H3_SET_MODE(c, mode), direction) :
            c \in OriginCells \cup InvalidCells,
            mode \in {H3_CELL_MODE, H3_DIRECTEDEDGE_MODE},
            direction \in CenterDigit..InvalidDigit}

InitEdgeCells ==
    /\ cell \in EdgeInputs
    /\ op = "init"
    /\ arg = NoArg
    /\ ret = NoRet

DirectedEdgeToCells ==
    /\ op = "init"
    /\ ret' = directedEdgeToCells(cell)
    /\ op' = "directedEdgeToCells"
    /\ UNCHANGED <<cell, arg>>

IsValidDirectedEdge ==
    /\ op = "init"
    /\ ret' = [ok |-> TRUE, err |-> "", flag |-> isValidDirectedEdge(cell)]
    /\ op' = "isValidDirectedEdge"
    /\ UNCHANGED <<cell, arg>>

NextEdgeCells == DirectedEdgeToCells \/ IsValidDirectedEdge

SpecEdgeCells == InitEdgeCells /\ [][NextEdgeCells]_vars

(***************************************************************************)
(* SpecChildren: the children of a parent cell                             *)
(***************************************************************************)
\* The deepest child resolution, relative to the parent, that is enumerated.
MaxChildDepth == 2

\* The parent cells: cells of resolution 0 and 1 of the sampled base cells,
\* and cells of the resolutions 13..15 of a pentagon and a hexagon base cell
\* (all digits d, the last digit e), valid or not.
ParentCells ==
    {CellOf(SampledBaseCells[b], s) :
        b \in 1..NumOriginBaseCells, s \in DigitStrings(0) \cup DigitStrings(1)}
    \cup {H3_SET_INDEX_DIGIT(setH3Index(res, bc, d), res, e) :
            res \in (MAX_H3_RES - 2)..MAX_H3_RES, bc \in {4, 8},
            d \in {CenterDigit, JKAxesDigit}, e \in {CenterDigit, KAxesDigit, IJAxesDigit}}

InitChildren ==
    /\ cell \in ParentCells
    /\ op = "init"
    /\ arg = NoArg
    /\ ret = NoRet

CellToChildrenSize ==
    /\ op = "init"
    /\ \E childRes \in -1..(MAX_H3_RES + 1) :
        /\ arg' = [childRes |-> childRes]
        /\ ret' \in cellToChildrenSize(cell, childRes)
    /\ op' = "cellToChildrenSize"
    /\ UNCHANGED cell

\* The child resolutions tried for a parent: the one below the parent's and
\* those up to MaxChildDepth below it, past MAX_H3_RES for the deepest parents.
ChildResOf(h) == (getResolution(h) - 1)..(getResolution(h) + MaxChildDepth)

CellToChildren ==
    /\ op = "init"
    /\ \E childRes \in ChildResOf(cell) :
        /\ arg' = [childRes |-> childRes]
        /\ ret' = cellToChildren(cell, childRes)
    /\ op' = "cellToChildren"
    /\ UNCHANGED cell

\* The number of calls of next made on an exhausted iterator.
MaxIdleSteps == 2

\* IterCellsChildren::from_parent: ret is the iterator, with the result of
\* the last call of next, the number of cells yielded and the number of
\* calls that yielded nothing.
FromParent ==
    /\ op = "init"
    /\ \E childRes \in ChildResOf(cell) :
        /\ arg' = [childRes |-> childRes]
        /\ ret' = [it |-> from_parent(cell, childRes), some |-> FALSE,
                   item |-> H3_NULL, count |-> 0, idle |-> 0]
    /\ op' = "iter"
    /\ UNCHANGED cell

\* The fields count and idle after a call of next with result step.
Counted(step, count, idle) ==
    [it |-> step.it, some |-> step.some, item |-> step.item,
     count |-> IF step.some THEN count + 1 ELSE count,
     idle |-> IF step.some THEN idle ELSE idle + 1]

\* IterCellsChildren::next
IterNext ==
    /\ op = "iter"
    /\ ret.idle < MaxIdleSteps
    /\ ret' = Counted(IterNextOf(ret.it), ret.count, ret.idle)
    /\ UNCHANGED <<cell, op, arg>>

\* childPosToCell for the positions -1 .. 7^MaxChildDepth, which has every
\* position of the deepest list and two outside of it.
ChildPosToCell ==
    /\ op = "init"
    /\ \E childRes \in ChildResOf(cell), childPos \in -1..Pow7(MaxChildDepth) :
        /\ arg' = [childRes |-> childRes, childPos |-> childPos]
        /\ ret' \in childPosToCell(childPos, cell, childRes)
    /\ op' = "childPosToCell"
    /\ UNCHANGED cell

NextChildren ==
    CellToChildrenSize \/ CellToChildren \/ FromParent \/ IterNext \/ ChildPosToCell

SpecChildren == InitChildren /\ [][NextChildren]_vars
(***************************************************************************)
(* SpecRes0: the loop of getRes0Cells, and its result                      *)
(***************************************************************************)
res0CellCount == NUM_BASE_CELLS

\* One pass of the loop of getRes0Cells: out[bc] = baseCell.
getRes0CellsStep_noMode(out, bc) ==
    [out EXCEPT ![bc + 1] = H3_SET_BASE_CELL(H3_INIT, bc)]

getRes0CellsStep(out, bc) ==
    [out EXCEPT ![bc + 1] = H3_SET_BASE_CELL(H3_SET_MODE(H3_INIT, H3_CELL_MODE), bc)]

\* out.resize(NUM_BASE_CELLS, 0); ret.bc is the loop variable.
InitRes0 ==
    /\ cell = H3_NULL
    /\ op = "for bc"
    /\ arg = NoArg
    /\ ret = [out |-> [i \in 1..NUM_BASE_CELLS |-> H3_NULL], bc |-> 0]

GetRes0CellsLoop ==
    /\ op = "for bc"
    /\ ret.bc < NUM_BASE_CELLS
    /\ ret' = [out |-> getRes0CellsStep(ret.out, ret.bc), bc |-> ret.bc + 1]
    /\ UNCHANGED <<cell, op, arg>>

GetRes0CellsReturn ==
    /\ op = "for bc"
    /\ ret.bc >= NUM_BASE_CELLS
    /\ ret' = TraverseOk(ret.out)
    /\ op' = "getRes0Cells"
    /\ UNCHANGED <<cell, arg>>

\* isValidCell and isPentagon applied to an element of the result.
Res0Element ==
    /\ op = "getRes0Cells"
    /\ \E i \in 0..(res0CellCount - 1) :
        /\ cell' = ret.out[i + 1]
        /\ arg' = [i |-> i]
        /\ ret' = [out |-> ret.out, valid |-> isValidCell(ret.out[i + 1]),
                   pentagon |-> isPentagon(ret.out[i + 1])]
    /\ op' = "element"

NextRes0 == GetRes0CellsLoop \/ GetRes0CellsReturn \/ Res0Element

SpecRes0 == InitRes0 /\ [][NextRes0]_vars

(***************************************************************************)
(* The 64 bits of an index                                                 *)
(***************************************************************************)
\* The n low bits of v, most significant first.
RECURSIVE BitsOf(_, _)
BitsOf(v, n) ==
    IF n = 0 THEN <<>> ELSE Append(BitsOf(v \div 2, n - 1), v % 2)

RECURSIVE DigitBits(_, _)
DigitBits(h, r) ==
    IF r > MAX_H3_RES THEN <<>>
    ELSE BitsOf(h.dig[r], 3) \o DigitBits(h, r + 1)

\* The 64 bits of the index, bit 63 first.
H3Bits(h) ==
    BitsOf(h.hb, 1) \o BitsOf(h.mode, 4) \o BitsOf(h.rsv, 3) \o BitsOf(h.res, 4)
    \o BitsOf(h.bc, 7) \o DigitBits(h, 1)

\* The 16 hexadecimal digits of the index, most significant first.
H3Hex(h) ==
    [n \in 1..16 |-> 8 * H3Bits(h)[4 * n - 3] + 4 * H3Bits(h)[4 * n - 2]
                     + 2 * H3Bits(h)[4 * n - 1] + H3Bits(h)[4 * n]]

\* a < b as unsigned 64-bit numbers, compared from bit i on.
RECURSIVE BitsLess(_, _, _)
BitsLess(a, b, i) ==
    IF i > Len(a) THEN FALSE
    ELSE IF a[i] # b[i] THEN a[i] < b[i]
    ELSE BitsLess(a, b, i + 1)

H3Less(a, b) == BitsLess(H3Bits(a), H3Bits(b), 1)

(***************************************************************************)
(* SpecRotate: the rotations of an index about a pentagon center           *)
(***************************************************************************)
MaxRotateRes == 3           \* resolution up to which every digit string is rotated

\* n digits 0.
ZeroDigits(n) == [i \in 1..n |-> CenterDigit]

\* The indexes rotated: in a pentagon and in a hexagon base cell, in cell and
\* in directed edge mode, the resolution 0 index, every digit string over
\* 0..6 of the resolutions 1..MaxRotateRes, and every such string of length
\* MaxRotateRes at the end of a resolution 15 index.
RotateInputs ==
    {[CellOf(bc, s) EXCEPT !.mode = mode] :
        bc \in {4, 8}, mode \in {H3_CELL_MODE, H3_DIRECTEDEDGE_MODE},
        s \in UNION {DigitStrings(n) : n \in 0..MaxRotateRes}
              \cup {ZeroDigits(MAX_H3_RES - MaxRotateRes) \o t :
                      t \in DigitStrings(MaxRotateRes)}}

InitRotate ==
    /\ cell \in RotateInputs
    /\ op = "init"
    /\ arg = NoArg
    /\ ret = NoRet

H3RotatePent60ccw ==
    /\ op = "init"
    /\ ret' = [h |-> _h3RotatePent60ccw(cell)]
    /\ op' = "_h3RotatePent60ccw"
    /\ UNCHANGED <<cell, arg>>

H3RotatePent60cw ==
    /\ op = "init"
    /\ ret' = [h |-> _h3RotatePent60cw(cell)]
    /\ op' = "_h3RotatePent60cw"
    /\ UNCHANGED <<cell, arg>>

NextRotate == H3RotatePent60ccw \/ H3RotatePent60cw

SpecRotate == InitRotate /\ [][NextRotate]_vars

(***************************************************************************)
(* SpecCross: neighbor steps from the cells around the pentagon base cells *)
(***************************************************************************)
MaxCrossRes == 2            \* deepest resolution of the origins around the pentagons

\* The pentagon base cells and the base cells next to one.
PentagonBaseCells == {bc \in 0..(NUM_BASE_CELLS - 1) : _isBaseCellPentagon(bc)}

AroundPentagons ==
    PentagonBaseCells
    \cup ({baseCellNeighbors[p + 1][d + 1] : p \in PentagonBaseCells,
             d \in KAxesDigit..IJAxesDigit} \ {INVALID_BASE_CELL})

\* The origins: every valid cell of resolution 1, and every valid cell of
\* the resolutions 2..MaxCrossRes in and next to the pentagon base cells.
CrossOrigins ==
    {h \in {CellOf(bc, s) : bc \in 0..(NUM_BASE_CELLS - 1), s \in DigitStrings(1)}
           \cup {CellOf(bc, s) : bc \in AroundPentagons,
                    s \in UNION {DigitStrings(n) : n \in 2..MaxCrossRes}} :
        isValidCell(h)}

InitCross ==
    /\ cell \in CrossOrigins
    /\ op = "init"
    /\ arg = NoArg
    /\ ret = NoRet

NextCross == Neighbor

SpecCross == InitCross /\ [][NextCross]_vars

(***************************************************************************)
(* SpecFaceIjk: _faceIjkToH3 applied to a face, an ijk and a resolution    *)
(***************************************************************************)
MaxFaceRes == 2             \* deepest resolution of the small coordinates
MaxInputCoord == 20         \* largest component of the small coordinates

\* The normalized non-negative coordinates with components up to n: no
\* component is negative and the least one is 0.
NormalizedCoords(n) ==
    {CoordIJK(i, j, k) : i, j, k \in 0..n} \cap
    {c \in [i : 0..n, j : 0..n, k : 0..n] : c.i = 0 \/ c.j = 0 \/ c.k = 0}

\* Coordinates at the ends of the range of i32, and around the least
\* component whose threefold leaves it.
ExtremeCoords ==
    {CoordIJK(MaxI32, 0, 0), CoordIJK(0, MaxI32, 0), CoordIJK(0, 0, MaxI32),
     CoordIJK(MaxI32, MaxI32, 0), CoordIJK(MaxI32 \div 3, 0, 0),
     CoordIJK(MaxI32 \div 2, 0, MaxI32 \div 2), CoordIJK(0, MaxI32 \div 2, 1)}

FaceIjkInputs ==
    {[fijk |-> FaceIJK(face, c), res |-> res] :
        face \in 0..(NUM_ICOSA_FACES - 1), c \in NormalizedCoords(MaxInputCoord),
        res \in 0..MaxFaceRes}
    \cup {[fijk |-> FaceIJK(face, c), res |-> res] :
            face \in {0, 19}, c \in ExtremeCoords \cup NormalizedCoords(MAX_FACE_COORD),
            res \in {0, 1, 2, MAX_H3_RES - 1, MAX_H3_RES}}

InitFaceIjk ==
    /\ cell = H3_NULL
    /\ op = "init"
    /\ arg \in FaceIjkInputs
    /\ ret = NoRet

FaceIjkToH3 ==
    /\ op = "init"
    /\ ret' \in _faceIjkToH3(arg.fijk, arg.res)
    /\ op' = "_faceIjkToH3"
    /\ UNCHANGED <<cell, arg>>

NextFaceIjk == FaceIjkToH3

SpecFaceIjk == InitFaceIjk /\ [][NextFaceIjk]_vars

(***************************************************************************)
(* SpecLattice: the digit tables of h3NeighborRotations and the ijk        *)
(* arithmetic of _h3ToFaceIjk, on the cells of a hexagon base cell         *)
(***************************************************************************)
MaxLatticeRes == 3          \* deepest resolution of the cells stepped from

\* The cells of the resolutions 1..MaxLatticeRes of the hexagon base cell 8.
LatticeCells ==
    {CellOf(8, s) : s \in UNION {DigitStrings(n) : n \in 1..MaxLatticeRes}}

InitLattice ==
    /\ cell \in LatticeCells
    /\ op = "init"
    /\ arg = NoArg
    /\ ret = NoRet

\* The hex reached from the center child of the hex in direction adjustment
\* by a step in direction digit, in the grid of the class of resolution res.
TableHex(res, adjustment, digit) ==
    _ijkNormalize(_ijkAdd(IF isResolutionClassIII(res)
                          THEN _downAp7(UNIT_VECS[adjustment + 1])
                          ELSE _downAp7r(UNIT_VECS[adjustment + 1]),
                          UNIT_VECS[digit + 1]))

\* The entries of the tables for the last digit of the cell and a direction,
\* as hexes, beside the sum of the two unit vectors.
DigitTables ==
    /\ op = "init"
    /\ \E dir \in CenterDigit..IJAxesDigit :
        /\ arg' = [dir |-> dir, digit |-> H3_GET_INDEX_DIGIT(cell, getResolution(cell))]
        /\ ret' = [sum |-> _ijkNormalize(_ijkAdd(
                              UNIT_VECS[H3_GET_INDEX_DIGIT(cell, getResolution(cell)) + 1],
                              UNIT_VECS[dir + 1])),
                   classII |-> TableHex(1,
                       NEW_ADJUSTMENT_II[H3_GET_INDEX_DIGIT(cell, getResolution(cell)) + 1][dir + 1],
                       NEW_DIGIT_II[H3_GET_INDEX_DIGIT(cell, getResolution(cell)) + 1][dir + 1]),
                   classIII |-> TableHex(2,
                       NEW_ADJUSTMENT_III[H3_GET_INDEX_DIGIT(cell, getResolution(cell)) + 1][dir + 1],
                       NEW_DIGIT_III[H3_GET_INDEX_DIGIT(cell, getResolution(cell)) + 1][dir + 1])]
    /\ op' = "tables"
    /\ UNCHANGED cell

\* The ijk of a cell relative to the center of its base cell.
IjkInBaseCell(h) ==
    _h3ToFaceIjkWithInitializedFijk(h, FaceIJK(0, CoordIJK(0, 0, 0))).fijk.coord

\* A neighbor step, and the ijk of the origin and of the cell reached.
LatticeStep ==
    /\ op = "init"
    /\ \E dir \in CenterDigit..IJAxesDigit :
        /\ arg' = [dir |-> dir, rotations |-> 0]
        /\ ret' = [n |-> h3NeighborRotations(cell, dir, 0),
                   from |-> IjkInBaseCell(cell),
                   to |-> IjkInBaseCell(h3NeighborRotations(cell, dir, 0).h)]
    /\ op' = "step"
    /\ UNCHANGED cell

NextLattice == DigitTables \/ LatticeStep

SpecLattice == InitLattice /\ [][NextLattice]_vars

(***************************************************************************)
(* SpecRoundTrip: _h3ToFaceIjk, then _faceIjkToH3 applied to its result    *)
(***************************************************************************)
MaxRoundRes == 2            \* resolution up to which every cell is converted

\* The digits s followed by the digit t up to the resolution res.
TailDigits(s, t, res) == [r \in 1..res |-> IF r <= Len(s) THEN s[r] ELSE t]

\* The cells converted: every valid cell of the resolutions 0..MaxRoundRes of
\* all base cells, the pentagons of every resolution, and the valid cells of
\* the two deepest resolutions of four base cells whose digits are any
\* MaxRoundRes digits followed by one repeated digit; and the invalid
\* origins.
InitRoundTrip ==
    /\ \/ \E bc \in 0..(NUM_BASE_CELLS - 1), n \in 0..MaxRoundRes :
            \E s \in DigitStrings(n) : cell = CellOf(bc, s)
       \/ cell \in PentagonCells
       \/ \E b \in 1..4, s \in DigitStrings(MaxRoundRes) :
            \E t \in CenterDigit..IJAxesDigit, res \in {MAX_H3_RES - 1, MAX_H3_RES} :
               cell = CellOf(SampledBaseCells[b], TailDigits(s, t, res))
       \/ cell \in InvalidOrigins
    /\ isValidCell(cell) \/ cell \in InvalidOrigins
    /\ op = "init"
    /\ arg = NoArg
    /\ ret = NoRet

H3ToFaceIjk ==
    /\ op = "init"
    /\ ret' = _h3ToFaceIjk(cell)
    /\ op' = "_h3ToFaceIjk"
    /\ UNCHANGED <<cell, arg>>

\* _faceIjkToH3 applied to the fijk returned, with the resolution of the
\* cell.
FaceIjkBack ==
    /\ op = "_h3ToFaceIjk"
    /\ ret.ok
    /\ arg' = [fijk |-> ret.fijk, res |-> getResolution(cell)]
    /\ ret' \in _faceIjkToH3(ret.fijk, getResolution(cell))
    /\ op' = "_faceIjkToH3"
    /\ UNCHANGED cell

NextRoundTrip == H3ToFaceIjk \/ FaceIjkBack

SpecRoundTrip == InitRoundTrip /\ [][NextRoundTrip]_vars

(***************************************************************************)
(* SpecFallback: _gridDiskDistancesInternal step by step: the probe loop,  *)
(* the store, the loop over the six directions and the recursive calls, on *)
(* a stack of frames                                                       *)
(***************************************************************************)
MaxFallbackK == 2           \* largest radius of the stepped fallback

\* The base cells whose cells are origins of the stepped fallback: the
\* pentagons 4 and 14, and the hexagon 8.
FallbackBaseCells == {4, 8, 14}

\* The origins: the valid cells of the resolutions 0 and 1 of these base
\* cells, and the invalid origins.
FallbackOrigins ==
    {h \in {CellOf(bc, s) : bc \in FallbackBaseCells,
                s \in DigitStrings(0) \cup DigitStrings(1)} : isValidCell(h)}
    \cup InvalidOrigins

\* A variant of FallbackTable with k slots less.
FallbackTable_kSlotsLess(k) ==
    [s \in 1..(maxGridDiskSize(k) - k) |-> <<H3_NULL, 0>>]

\* out.resize(maxIdx, (0, 0)) with maxIdx = maxGridDiskSize(k)
FallbackTable(k) == [s \in 1..maxGridDiskSize(k) |-> <<H3_NULL, 0>>]

\* The frame of a call of _gridDiskDistancesInternal at its entry: off is
\* origin % maxIdx, i the direction of the loop.
FallbackFrame(origin, curK, maxIdx) ==
    [origin |-> origin, curK |-> curK, off |-> H3Mod(origin, maxIdx), i |-> 0]

InitFallback ==
    /\ cell \in FallbackOrigins
    /\ op = "init"
    /\ arg = NoArg
    /\ ret = NoRet

\* gridDiskDistances, the fallback: the zero-filled set and the first call.
FallbackStart ==
    /\ op = "init"
    /\ \E k \in 0..MaxFallbackK :
        /\ arg' = [NoArg EXCEPT !.k = k]
        /\ ret' = [err |-> "", out |-> FallbackTable(k),
                   stack |-> <<FallbackFrame(cell, 0, Len(FallbackTable(k)))>>]
    /\ op' = "while"
    /\ UNCHANGED cell

\* The frame of the running call, and the slot its probe loop is at.
TopFrame == ret.stack[Len(ret.stack)]
TopSlot == ret.out[TopFrame.off + 1]

\* The state after the running call returned Ok(()) with the set out: the
\* caller goes on with the next direction.
FallbackReturned(out) ==
    IF Len(ret.stack) = 1
    THEN [ret EXCEPT !.out = out, !.stack = <<>>]
    ELSE [ret EXCEPT !.out = out,
                     !.stack = [SubSeq(ret.stack, 1, Len(ret.stack) - 1)
                                   EXCEPT ![Len(ret.stack) - 1].i = @ + 1]]

\* The set with the origin of the running call stored at the slot.
FallbackStored ==
    [ret.out EXCEPT ![TopFrame.off + 1] = <<TopFrame.origin, TopFrame.curK>>]

\* while out[off].0 != 0 && out[off].0 != origin { off = (off + 1) % maxIdx }
ProbeNext ==
    /\ op = "while"
    /\ TopSlot[1] # H3_NULL /\ TopSlot[1] # TopFrame.origin
    /\ ret' = [ret EXCEPT !.stack[Len(ret.stack)].off = (@ + 1) % Len(ret.out)]
    /\ UNCHANGED <<cell, op, arg>>

\* if out[off].0 == origin && out[off].1 <= curK { return Ok(()) }
DuplicateReturn ==
    /\ op = "while"
    /\ TopSlot[1] = TopFrame.origin /\ TopSlot[2] <= TopFrame.curK
    /\ ret' = FallbackReturned(ret.out)
    /\ op' = IF Len(ret.stack) = 1 THEN "done" ELSE "for"
    /\ UNCHANGED <<cell, arg>>

\* The store, and the base case: if curK >= k { return Ok(()) }
BaseCaseReturn ==
    /\ op = "while"
    /\ TopSlot[1] = H3_NULL \/ TopSlot[1] = TopFrame.origin
    /\ ~(TopSlot[1] = TopFrame.origin /\ TopSlot[2] <= TopFrame.curK)
    /\ TopFrame.curK >= arg.k
    /\ ret' = FallbackReturned(FallbackStored)
    /\ op' = IF Len(ret.stack) = 1 THEN "done" ELSE "for"
    /\ UNCHANGED <<cell, arg>>

\* The store, and the entry of the loop over the directions.
Expand ==
    /\ op = "while"
    /\ TopSlot[1] = H3_NULL \/ TopSlot[1] = TopFrame.origin
    /\ ~(TopSlot[1] = TopFrame.origin /\ TopSlot[2] <= TopFrame.curK)
    /\ TopFrame.curK < arg.k
    /\ ret' = [ret EXCEPT !.out = FallbackStored]
    /\ op' = "for"
    /\ UNCHANGED <<cell, arg>>

\* h3NeighborRotations(h, DIRECTIONS[i], &mut rotations) with rotations = 0,
\* for every cell h of the resolutions 0 and 1 and the six directions.
FallbackNeighbors ==
    [h \in {CellOf(bc, s) : bc \in 0..(NUM_BASE_CELLS - 1),
                s \in DigitStrings(0) \cup DigitStrings(1)} \cup InvalidOrigins |->
        [i \in 1..6 |-> h3NeighborRotations(h, DIRECTIONS[i], 0)]]

\* The step of the loop of the running call.
FallbackNeighbor == FallbackNeighbors[TopFrame.origin][TopFrame.i + 1]

\* Ok(result) => _gridDiskDistancesInternal(result, k, out, maxIdx, curK + 1)
NeighborCall ==
    /\ op = "for"
    /\ TopFrame.i < 6
    /\ FallbackNeighbor.ok
    /\ ret' = [ret EXCEPT !.stack =
                  Append(@, FallbackFrame(FallbackNeighbor.h, TopFrame.curK + 1,
                                          Len(ret.out)))]
    /\ op' = "while"
    /\ UNCHANGED <<cell, arg>>

\* Err(e) with e == Error::Pentagon: the direction is skipped.
NeighborSkip ==
    /\ op = "for"
    /\ TopFrame.i < 6
    /\ ~FallbackNeighbor.ok /\ FallbackNeighbor.err = "Pentagon"
    /\ ret' = [ret EXCEPT !.stack[Len(ret.stack)].i = @ + 1]
    /\ UNCHANGED <<cell, op, arg>>

\* Err(e) with e != Error::Pentagon: return Err(e), which every caller
\* returns in turn.
NeighborFail ==
    /\ op = "for"
    /\ TopFrame.i < 6
    /\ ~FallbackNeighbor.ok /\ FallbackNeighbor.err # "Pentagon"
    /\ ret' = [ret EXCEPT !.err = FallbackNeighbor.err, !.stack = <<>>]
    /\ op' = "done"
    /\ UNCHANGED <<cell, arg>>

\* The loop over the directions ended: return Ok(()).
LoopEnd ==
    /\ op = "for"
    /\ TopFrame.i >= 6
    /\ ret' = FallbackReturned(ret.out)
    /\ op' = IF Len(ret.stack) = 1 THEN "done" ELSE "for"
    /\ UNCHANGED <<cell, arg>>

NextFallback ==
    \/ FallbackStart \/ ProbeNext \/ DuplicateReturn \/ BaseCaseReturn \/ Expand
    \/ NeighborCall \/ NeighborSkip \/ NeighborFail \/ LoopEnd

SpecFallback == InitFallback /\ [][NextFallback]_vars

\* The steps of one call sequence are taken one after the other by a single
\* thread: a step that can be taken is taken.
SpecFallbackFair == SpecFallback /\ WF_vars(NextFallback)

(***************************************************************************)
(* SpecDiskUnsafe: gridDiskDistancesUnsafe alone applied to an origin cell *)
(***************************************************************************)
NextDiskUnsafe == DiskUnsafe

SpecDiskUnsafe == Init /\ [][NextDiskUnsafe]_vars
(***************************************************************************)
(* Properties of the index codec and of the neighbor step                  *)
(***************************************************************************)
\* The validity conditions of a cell index, stated field by field: high
\* bit, mode, reserved bits, resolution, base cell, the digits up to the
\* resolution, the digits past it, the deleted sub-sequence of a pentagon.
ValidCellConditions(h) ==
    /\ h.hb = 0
    /\ h.mode = 1
    /\ h.rsv = 0
    /\ h.res \in 0..15
    /\ h.bc \in 0..121
    /\ \A r \in 1..h.res : h.dig[r] \in 0..6
    /\ \A r \in (h.res + 1)..15 : h.dig[r] = 7
    /\ baseCellData[h.bc + 1][5] = 1 =>
           ~\E r \in 1..h.res :
               /\ h.dig[r] = 1
               /\ \A q \in 1..(r - 1) : h.dig[q] = 0

\* C1: isValidCell(h) is true if and only if bit 63 is 0, the mode is 1, the
\* reserved bits are 0, the resolution r is in 0..15, the base cell is in
\* 0..121, every digit 1..r is in 0..6, every digit r+1..15 is 7 and, for a
\* pentagon base cell, the first non-zero digit among 1..r is not K.
C1_isValidCell_iff_conditions ==
    op = "isValidCell" => (ret.flag <=> ValidCellConditions(cell))

\* C1 witness: isValidCell rejected an index that breaks only the pentagon
\* rule, and nothing else.
C1_witness_pentagon_leading_K ==
    /\ op = "isValidCell"
    /\ ~ret.flag
    /\ cell.hb = 0 /\ cell.mode = 1 /\ cell.rsv = 0 /\ cell.bc = 4
    /\ cell.res >= 3
    /\ \A r \in 1..cell.res : cell.dig[r] \in 0..6
    /\ \A r \in (cell.res + 1)..15 : cell.dig[r] = 7
    /\ cell.dig[1] = 0 /\ cell.dig[2] = 1

\* C2 as stated: from every pentagon cell of every resolution 0..15, the
\* step in direction K with rotations = 0 returns the error Pentagon.
C2_pentagon_K_is_Pentagon_all_res ==
    (/\ op = "h3NeighborRotations"
     /\ isPentagon(cell) /\ isValidCell(cell)
     /\ arg.dir = KAxesDigit /\ arg.rotations = 0)
    => (~ret.ok /\ ret.err = "Pentagon")

\* C2: from every pentagon cell of resolution 1..15, the step in direction
\* K with rotations = 0 returns the error Pentagon and yields no cell; from
\* a pentagon of resolution 0 the same step succeeds: it returns the
\* resolution 0 cell of the base cell neighboring in direction IK, which is
\* a hexagon.
C2_pentagon_K_is_Pentagon_above_res0 ==
    (/\ op = "h3NeighborRotations"
     /\ isPentagon(cell) /\ isValidCell(cell)
     /\ arg.dir = KAxesDigit /\ arg.rotations = 0)
    => IF cell.res >= 1
       THEN ~ret.ok /\ ret.err = "Pentagon" /\ ret.h = H3_NULL
       ELSE /\ ret.ok
            /\ ret.h = getRes0Cells[baseCellNeighbors[cell.bc + 1][IKAxesDigit + 1] + 1]
            /\ ~isPentagon(ret.h)

\* C2 witness: the step K was taken from a pentagon of resolution 15 and
\* failed with Pentagon.
C2_witness_res15_pentagon ==
    /\ op = "h3NeighborRotations"
    /\ isPentagon(cell) /\ cell.res = MAX_H3_RES
    /\ arg.dir = KAxesDigit /\ arg.rotations = 0
    /\ ret.err = "Pentagon"

\* C2 witness of the resolution 0 case: the step K from a resolution 0
\* pentagon returned a cell.
C2_witness_res0_pentagon_ok ==
    /\ op = "h3NeighborRotations"
    /\ isPentagon(cell) /\ cell.res = 0
    /\ arg.dir = KAxesDigit /\ arg.rotations = 0
    /\ ret.ok

(***************************************************************************)
(* Properties of gridDiskDistancesUnsafe                                   *)
(***************************************************************************)
\* C3: whenever gridDiskDistancesUnsafe(origin, k) returns Ok, the list has
\* exactly 3k(k+1)+1 entries.
C3_unsafe_disk_size ==
    (op = "gridDiskDistancesUnsafe" /\ ret.ok)
    => Len(ret.out) = 3 * arg.k * (arg.k + 1) + 1

\* C3 witness: a disk of the largest radius was produced by the fast walk.
C3_witness_disk_of_radius_MaxK ==
    /\ op = "gridDiskDistancesUnsafe"
    /\ ret.ok
    /\ arg.k = MaxK
    /\ Len(ret.out) > 7

\* The order of the sides of a ring.
SideOrder ==
    <<JAxesDigit, JKAxesDigit, KAxesDigit, IKAxesDigit, IAxesDigit, IJAxesDigit>>

\* The walk of the disk as a list of steps: ring r = 1..k consists of step 0
\* in direction I (to the ring, the cell reached is not emitted) and of the
\* steps s = 1..6r, step s in the direction of side (s - 1) \div r + 1 (the
\* cell reached is emitted with tag r). Every step starts from the cell the
\* previous step reached, with the rotation count that step left. The walk
\* ends at the first step that fails (how = its error) or that reaches a
\* pentagon (how = "pentagon"); how = "done" after the last ring.
RECURSIVE DiskWalk(_, _, _, _, _, _)
DiskWalkStepped(n, k, r, s, emitted) ==
    IF ~n.ok THEN [how |-> n.err, emitted |-> emitted, ring |-> r, step |-> s]
    ELSE IF isPentagon(n.h)
    THEN [how |-> "pentagon", emitted |-> emitted, ring |-> r, step |-> s]
    ELSE DiskWalk(n.h, n.rotations, k,
                  IF s = 6 * r THEN r + 1 ELSE r,
                  IF s = 6 * r THEN 0 ELSE s + 1,
                  IF s = 0 THEN emitted ELSE Append(emitted, <<n.h, r>>))

DiskWalk(cur, rotations, k, r, s, emitted) ==
    IF r > k THEN [how |-> "done", emitted |-> emitted, ring |-> r, step |-> s]
    ELSE DiskWalkStepped(
             h3NeighborRotations(cur,
                 IF s = 0 THEN IAxesDigit ELSE SideOrder[((s - 1) \div r) + 1],
                 rotations),
             k, r, s, emitted)

\* The walk in which every step of a ring, the first one included, starts
\* from the previously emitted cell: there is no step to the ring.
RECURSIVE EmittedOnlyWalk(_, _, _, _, _, _)
EmittedOnlyWalkStepped(n, k, r, s, emitted) ==
    IF ~n.ok THEN emitted
    ELSE EmittedOnlyWalk(n.h, n.rotations, k,
                         IF s = 6 * r THEN r + 1 ELSE r,
                         IF s = 6 * r THEN 1 ELSE s + 1,
                         Append(emitted, <<n.h, r>>))

EmittedOnlyWalk(cur, rotations, k, r, s, emitted) ==
    IF r > k THEN emitted
    ELSE EmittedOnlyWalkStepped(
             h3NeighborRotations(cur, SideOrder[((s - 1) \div r) + 1], rotations),
             k, r, s, emitted)

\* The part of C4 on the tags: origin first with tag 0, tags never
\* decrease, exactly 6r entries carry tag r.
DiskTagsInOrder(out, origin, k) ==
    /\ out[1] = <<origin, 0>>
    /\ \A i \in 1..(Len(out) - 1) : out[i][2] <= out[i + 1][2]
    /\ \A r \in 1..k : Cardinality({i \in 1..Len(out) : out[i][2] = r}) = 6 * r
    /\ \A i \in 2..Len(out) : out[i][2] \in 1..k

\* C4 as stated: a successful gridDiskDistancesUnsafe lists (origin, 0)
\* first, then the rings 1..k with 6r entries each, the sides in the order
\* [J, JK, K, IK, I, IJ], r steps per side, EVERY step applied to the
\* previously emitted cell.
C4_every_step_from_previously_emitted ==
    (op = "gridDiskDistancesUnsafe" /\ ret.ok)
    => /\ DiskTagsInOrder(ret.out, cell, arg.k)
       /\ ret.out = EmittedOnlyWalk(cell, 0, arg.k, 1, 1, <<<<cell, 0>>>>)

\* C4: a successful gridDiskDistancesUnsafe lists (origin, 0) first, then
\* the rings 1..k: tags never decrease, 6r consecutive entries carry tag r,
\* and within ring r the cells are produced side by side in the order
\* [J, JK, K, IK, I, IJ], r steps per side, with the rotation count threaded
\* through all steps. Every step is applied to the previously emitted cell
\* except the first step of each ring: that one is applied to the neighbor
\* in direction I of the previously emitted cell, which is not emitted by
\* that step.
C4_unsafe_disk_order ==
    (op = "gridDiskDistancesUnsafe" /\ ret.ok)
    => /\ DiskTagsInOrder(ret.out, cell, arg.k)
       /\ DiskWalk(cell, 0, arg.k, 1, 0, <<<<cell, 0>>>>) =
              [how |-> "done", emitted |-> ret.out, ring |-> arg.k + 1, step |-> 0]

\* C4 witness: a disk of two rings was produced; the first cell of ring 1 is
\* not the neighbor J of the origin.
C4_witness_two_rings ==
    /\ op = "gridDiskDistancesUnsafe"
    /\ ret.ok
    /\ arg.k >= 2
    /\ cell.res >= 1
    /\ ret.out[2][1] # h3NeighborRotations(cell, JAxesDigit, 0).h
    /\ ret.out[8][2] = 2

\* C5: gridDiskDistancesUnsafe returns Err(Pentagon) when the origin is a
\* pentagon (for every k, k = 0 included) and whenever a cell reached during
\* the walk, by the step I to a ring or by a step along a side, is a
\* pentagon; no cell of a successful result is a pentagon.
C5_unsafe_disk_pentagon ==
    op = "gridDiskDistancesUnsafe"
    => /\ isPentagon(cell) => (~ret.ok /\ ret.err = "Pentagon")
       /\ (/\ ~isPentagon(cell)
           /\ DiskWalk(cell, 0, arg.k, 1, 0, <<>>).how = "pentagon")
          => (~ret.ok /\ ret.err = "Pentagon")
       /\ ret.ok => \A i \in 1..Len(ret.out) : ~isPentagon(ret.out[i][1])

\* A walk that ended at a pentagon reached by a step along a side of ring 2.
EndsAtPentagonOfRing2(w) == w.how = "pentagon" /\ w.ring = 2 /\ w.step > 0

\* C5 witness: from a hexagon the walk reached a pentagon in its second
\* ring, and the result is Err(Pentagon).
C5_witness_pentagon_in_ring_2 ==
    /\ op = "gridDiskDistancesUnsafe"
    /\ ~isPentagon(cell)
    /\ EndsAtPentagonOfRing2(DiskWalk(cell, 0, arg.k, 1, 0, <<>>))
    /\ ret.err = "Pentagon"

(***************************************************************************)
(* Properties of gridDiskDistances                                         *)
(***************************************************************************)
\* The results of the steps from c in the six directions J, JK, K, IK, I,
\* IJ, each started with rotations = 0.
StepsFrom(c) ==
    {h3NeighborRotations(c, d, 0) : d \in {2, 3, 1, 5, 4, 6}}

\* The cells one successful step leads to from the cells of the set from.
StepTargets(from) ==
    {n.h : n \in {m \in UNION {StepsFrom(c) : c \in from} : m.ok}}

\* The pairs (c, d): d <= k is the length of the shortest chain of
\* successful steps leading from origin to c. ChainsFrom extends acc, the
\* pairs of the cells reached with chains of at most d steps, those of
\* length exactly d being frontier.
RECURSIVE ChainsFrom(_, _, _, _, _)
ChainsNext(new, reached, d, k, acc) ==
    ChainsFrom(reached \cup new, new, d, k, acc \cup {<<c, d>> : c \in new})

ChainsFrom(reached, frontier, d, k, acc) ==
    IF d >= k \/ frontier = {} THEN acc
    ELSE ChainsNext(StepTargets(frontier) \ reached, reached, d + 1, k, acc)

ShortestChains(origin, k) ==
    ChainsFrom({origin}, {origin}, 0, k, {<<origin, 0>>})

\* The errors other than Pentagon of the steps from the cells that chains
\* of fewer than k successful steps lead to.
OtherStepErrors(origin, k) ==
    IF k = 0 THEN {}
    ELSE {n.err : n \in {m \in UNION {StepsFrom(p[1]) : p \in ShortestChains(origin, k - 1)} :
                            ~m.ok /\ m.err # "Pentagon"}}

\* What C6 says of the fallback, others being the errors other than
\* Pentagon of the steps it takes.
FallbackReturns(r, others) ==
    IF others = {} THEN r.ok ELSE ~r.ok /\ r.err \in others

\* C6: gridDiskDistances never returns the error Pentagon: any failure of
\* the fast path switches to the fallback; in the fallback a Pentagon error
\* of a step is swallowed, every other error of a step is returned.
C6_disk_never_Pentagon ==
    op = "gridDiskDistances"
    => /\ ret.err # "Pentagon"
       /\ ~ret.hung
       /\ ret.fallback <=> ~gridDiskDistancesUnsafe(cell, arg.k).ok
       /\ ret.fallback => FallbackReturns(ret, OtherStepErrors(cell, arg.k))

\* C6 witness: the fast path failed at a pentagon origin whose step K fails
\* with Pentagon, and the fallback succeeded.
C6_witness_pentagon_swallowed ==
    /\ op = "gridDiskDistances"
    /\ arg.k >= 1
    /\ isPentagon(cell) /\ cell.res >= 1
    /\ h3NeighborRotations(cell, KAxesDigit, 0).err = "Pentagon"
    /\ ret.fallback /\ ret.ok

\* C6 witness of the other errors: the fallback returned CellInvalid.
C6_witness_other_error_returned ==
    /\ op = "gridDiskDistances"
    /\ ret.fallback
    /\ ret.err = "CellInvalid"

C8_disk_of_radius_1 ==
    (op = "gridDiskDistances" /\ arg.k = 1 /\ isValidCell(cell))
    => /\ ret.ok
       /\ {ret.out[i] : i \in 1..Len(ret.out)} =
              {<<cell, 0>>} \cup
              {<<n.h, 1>> : n \in {m \in StepsFrom(cell) : m.ok}}
       /\ \A i \in 1..Len(ret.out) :
              /\ ret.out[i][1] # H3_NULL
              /\ isValidCell(ret.out[i][1])
       /\ Len(ret.out) = IF isPentagon(cell) THEN 6 ELSE 7
       /\ Cardinality({ret.out[i][1] : i \in 1..Len(ret.out)}) = Len(ret.out)

\* C8 witness: the disk of radius 1 of a pentagon of resolution 2.
C8_witness_pentagon_disk ==
    /\ op = "gridDiskDistances" /\ arg.k = 1
    /\ isPentagon(cell) /\ isValidCell(cell) /\ cell.res = 2
    /\ Len(ret.out) = 6

(***************************************************************************)
(* Properties of gridRingUnsafe                                            *)
(***************************************************************************)
\* C9: whenever gridRingUnsafe(origin, k) returns Ok, the list has exactly
\* max(1, 6k) cells: [origin] for k = 0, also for a pentagon, and 6k cells
\* for k >= 1.
C9_ring_size ==
    op = "gridRingUnsafe"
    => /\ ret.ok => Len(ret.out) = IF 6 * arg.k > 1 THEN 6 * arg.k ELSE 1
       /\ arg.k = 0 => (ret.ok /\ ret.out = <<cell>>)

\* C9 witness: a ring of the largest radius was produced.
C9_witness_ring_of_radius_MaxK ==
    /\ op = "gridRingUnsafe"
    /\ ret.ok
    /\ arg.k = MaxK
    /\ Len(ret.out) = 6 * MaxK

\* The walk of the ring with no check on the cells it reaches: k steps in
\* direction I from origin, then k steps along each of the six sides; t
\* counts the steps taken, first is the cell the k steps I led to. The
\* result holds the first cell and the last one, whether a cell reached
\* before the last step is a pentagon, and the error of a failed step.
RECURSIVE RingWalk(_, _, _, _, _, _)
RingWalkStepped(n, k, t, first, pent) ==
    IF ~n.ok
    THEN [err |-> n.err, first |-> first, last |-> n.h, pent |-> pent]
    ELSE RingWalk(n.h, n.rotations, k, t + 1,
                  IF t + 1 = k THEN n.h ELSE first,
                  pent \/ (t + 1 < 7 * k /\ isPentagon(n.h)))

RingWalk(cur, rotations, k, t, first, pent) ==
    IF t = 7 * k
    THEN [err |-> "", first |-> first, last |-> cur, pent |-> pent]
    ELSE RingWalkStepped(
             h3NeighborRotations(cur,
                 IF t < k THEN IAxesDigit ELSE SideOrder[((t - k) \div k) + 1],
                 rotations),
             k, t, first, pent)

\* What C10 says of the result r of gridRingUnsafe, w being the walk.
RingClosesOrFails(r, w) ==
    /\ r.ok => (w.err = "" /\ w.first = r.out[1] /\ w.last = r.out[1])
    /\ (w.err = "" /\ w.last # w.first) => (~r.ok /\ r.err = "Pentagon")

\* C10: for k >= 1, gridRingUnsafe returns Ok only if the cell reached
\* after the 6k steps along the sides equals the first cell of the ring,
\* which is the first cell of the list; if the walk does not close on its
\* first cell, the result is Err(Pentagon).
C10_ring_closes ==
    (op = "gridRingUnsafe" /\ arg.k >= 1)
    => RingClosesOrFails(ret, RingWalk(cell, 0, arg.k, 0, cell, FALSE))

\* A walk that reached no pentagon and failed in no step, and yet ended on
\* another cell than its first one.
OpenWalk(w) == w.err = "" /\ ~w.pent /\ w.last # w.first

\* C10 witness: the walk reached no pentagon and no step failed, yet it
\* ended on another cell than its first one, and the result is
\* Err(Pentagon).
C10_witness_open_walk ==
    /\ op = "gridRingUnsafe" /\ arg.k >= 1
    /\ ~isPentagon(cell)
    /\ OpenWalk(RingWalk(cell, 0, arg.k, 0, cell, FALSE))
    /\ ret.err = "Pentagon"

(***************************************************************************)
(* Properties of maxGridDiskSize                                           *)
(***************************************************************************)
\* Whether the wide number a is at most the wide number b, from byte i down.
RECURSIVE WideLeqFrom(_, _, _)
WideLeqFrom(a, b, i) ==
    IF i = 0 THEN TRUE
    ELSE IF a[i] # b[i] THEN a[i] < b[i]
    ELSE WideLeqFrom(a, b, i - 1)

\* 3k(k+1)+1 as an exact natural number, computed another way than the
\* code does: k * k + k, three times, plus one.
ExactDiskSize(k) ==
    WideAdd(WideAdd(WideAdd(WideAdd(WideMul(k, k), k), WideAdd(WideMul(k, k), k)),
                    WideAdd(WideMul(k, k), k)),
            WideOfNat(1))

\* C11 as stated: maxGridDiskSize(k) equals 3k(k+1)+1 for every 32-bit
\* unsigned k, with no overflow of the 64-bit signed arithmetic.
C11_size_exact_for_every_u32 ==
    op = "maxGridDiskSize" => (~ret.panic /\ ret.size = ExactDiskSize(cell))

\* C11, what holds: maxGridDiskSize(k) equals 3k(k+1)+1, computed without
\* overflow, exactly for k <= 1753413055 (0x6882F5BF); for every larger k the
\* value 3k(k+1)+1 is out of the range of i64, and the call panics or returns
\* the value modulo 2^64.
C11_size_exact_up_to_1753413055 ==
    op = "maxGridDiskSize"
    => IF WideLeqFrom(cell, WideOfU32(191, 245, 130, 104), WideLen)
       THEN ~ret.panic /\ ret.size = ExactDiskSize(cell)
       ELSE /\ OverflowsI64(ExactDiskSize(cell))
            /\ ret.panic \/ ret.size = WrapToU64(ExactDiskSize(cell))

\* C11 witness: for k = 4294967295 the call returned 0xFFFFFFFD00000001
\* and not 3k(k+1)+1 = 55340232208243752961.
C11_witness_wrapped_at_u32_max ==
    /\ op = "maxGridDiskSize"
    /\ cell = WideOfU32(255, 255, 255, 255)
    /\ ~ret.panic
    /\ ret.size = <<1, 0, 0, 0, 253, 255, 255, 255, 0, 0>>
    /\ ExactDiskSize(cell) = <<1, 0, 0, 0, 253, 255, 255, 255, 2, 0>>

(***************************************************************************)
(* Properties of directed edges                                            *)
(***************************************************************************)
\* C12: for every valid cell a and every cell b, if cellsToDirectedEdge(a, b)
\* returns Ok(e) then getDirectedEdgeOrigin(e) = a,
\* getDirectedEdgeDestination(e) = b, directedEdgeToCells(e) = (a, b) and
\* isValidDirectedEdge(e) is true.
C12_edge_round_trip ==
    (op = "cellsToDirectedEdge" /\ isValidCell(cell) /\ ret.ok)
    => /\ getDirectedEdgeOrigin(ret.h) = EdgeOk(cell)
       /\ getDirectedEdgeDestination(ret.h) = EdgeOk(arg.destination)
       /\ directedEdgeToCells(ret.h) = CellsOk(cell, arg.destination)
       /\ isValidDirectedEdge(ret.h)

\* C12 witness: an edge from a pentagon of resolution 1 to one of its
\* neighbors, in a direction past J.
C12_witness_edge_from_pentagon ==
    /\ op = "cellsToDirectedEdge" /\ ret.ok
    /\ isValidCell(cell) /\ isPentagon(cell) /\ getResolution(cell) = 1
    /\ H3_GET_RESERVED_BITS(ret.h) > JAxesDigit
    /\ arg.destination # cell

\* The cells a disk (a result of gridDiskDistances) gives distance 1.
DistanceOne(disk) ==
    {disk.out[i][1] : i \in {j \in 1..Len(disk.out) : disk.out[j][2] = 1}}

\* Whether the result of cellsToDirectedEdge(a, b) is NotNeighbors whenever b
\* is a, or is not at distance 1 in the disk of radius 1 of a, or is a cell
\* of the ring of radius 2 of a.
RefusesNonNeighbors(a, b, result, disk, ring) ==
    /\ b \notin DistanceOne(disk) => result = EdgeErr("NotNeighbors")
    /\ b = a => result = EdgeErr("NotNeighbors")
    /\ (ring.ok /\ b \in RingCells(ring)) => result = EdgeErr("NotNeighbors")

\* C13: for every valid cell a and every cell b that is not a neighbor of a,
\* cellsToDirectedEdge(a, b) returns the error NotNeighbors; in particular
\* for b = a and for every cell b of gridRingUnsafe(a, 2). The neighbors of a
\* are the cells gridDiskDistances(a, 1) gives distance 1.
C13_not_neighbors ==
    (op = "cellsToDirectedEdge" /\ isValidCell(cell))
    => RefusesNonNeighbors(cell, arg.destination, ret,
                           gridDiskDistances(cell, 1), gridRingUnsafe(cell, 2))

\* C13 witness: a cell of gridRingUnsafe(a, 2) was refused as destination.
C13_witness_ring_2_cell_refused ==
    /\ op = "cellsToDirectedEdge" /\ isValidCell(cell)
    /\ gridRingUnsafe(cell, 2).ok
    /\ arg.destination \in RingCells(gridRingUnsafe(cell, 2))
    /\ ret = EdgeErr("NotNeighbors")

\* C14: for every valid cell c, originToDirectedEdges(c) has 6 slots; slot i
\* (0..5) is c with mode directed_edge and reserved bits i + 1, except slot 0
\* of a pentagon, which is H3_NULL; every slot that is not H3_NULL satisfies
\* isValidDirectedEdge and has origin c (6 slots of a hexagon, 5 of a
\* pentagon).
C14_origin_edges ==
    (op = "originToDirectedEdges" /\ isValidCell(cell))
    => /\ Len(ret.edges) = 6
       /\ \A i \in 0..5 :
            IF isPentagon(cell) /\ i = 0
            THEN ret.edges[i + 1] = H3_NULL
            ELSE /\ ret.edges[i + 1] =
                        [cell EXCEPT !.mode = H3_DIRECTEDEDGE_MODE, !.rsv = i + 1]
                 /\ isValidDirectedEdge(ret.edges[i + 1])
                 /\ getDirectedEdgeOrigin(ret.edges[i + 1]) = EdgeOk(cell)
       /\ Cardinality({i \in 1..6 : isValidDirectedEdge(ret.edges[i])}) =
              IF isPentagon(cell) THEN 5 ELSE 6

\* C14 witness: the edges of a pentagon of resolution 2: slot 0 is H3_NULL
\* and slot 1 is the edge in direction J.
C14_witness_pentagon_edges ==
    /\ op = "originToDirectedEdges"
    /\ isValidCell(cell) /\ isPentagon(cell) /\ getResolution(cell) = 2
    /\ ret.edges[1] = H3_NULL
    /\ H3_GET_RESERVED_BITS(ret.edges[2]) = JAxesDigit
    /\ isValidDirectedEdge(ret.edges[2])

IsChildrenCount(size, pentagon, n) ==
    /\ size >= 0
    /\ IF pentagon
       THEN WideMul(WideOfNat(6), WideOfNat(size)) =
                WideAdd(WideMul(WideOfNat(5), WidePow7(n)), WideOfNat(1))
       ELSE WideOfNat(size) = WidePow7(n)

\* C16 as stated: for every cell h of resolution p and every childRes in
\* p..15, cellToChildrenSize(h, childRes) returns 7^n (hexagon) or
\* 1 + 5 * (7^n - 1) / 6 (pentagon) with n = childRes - p, without overflow.
C16_children_size_for_every_n ==
    (op = "cellToChildrenSize" /\ _hasChildAtRes(cell, arg.childRes))
    => /\ ret.ok
       /\ IsChildrenCount(ret.size, isPentagon(cell),
                          arg.childRes - getResolution(cell))

\* C16, what holds: the size is exact for n <= 11; for n in 12..15 the value
\* 7^n is out of the range of i32, and the call panics or returns the size
\* computed from 7^n modulo 2^32, which is not the number of children.
C16_children_size_up_to_11 ==
    (op = "cellToChildrenSize" /\ _hasChildAtRes(cell, arg.childRes))
    => IF arg.childRes - getResolution(cell) <= 11
       THEN /\ ret.ok
            /\ IsChildrenCount(ret.size, isPentagon(cell),
                               arg.childRes - getResolution(cell))
       ELSE \/ ret.panic
            \/ /\ ret.ok
               /\ ~IsChildrenCount(ret.size, isPentagon(cell),
                                   arg.childRes - getResolution(cell))

\* C16 witness: for a hexagon of resolution 0 and child resolution 13 the
\* call returned the negative size -1895237401.
C16_witness_negative_size ==
    /\ op = "cellToChildrenSize"
    /\ getResolution(cell) = 0 /\ ~isPentagon(cell) /\ arg.childRes = 13
    /\ ret.ok /\ ret.size = -1895237401

\* C17 as stated: cellToChildren(h, childRes) reports the error ResDomain
\* when childRes is smaller than the resolution of h or greater than 15.
C17_children_res_domain ==
    (op = "cellToChildren" /\ ~_hasChildAtRes(cell, arg.childRes))
    => ret = TraverseErr("ResDomain")

\* C17, what holds: cellToChildren never returns an error; for a childRes
\* smaller than the resolution of h or greater than 15 it returns Ok with
\* the empty list, and for h = 0 too.
C17_children_empty_list ==
    op = "cellToChildren"
    => /\ ret.ok
       /\ ~_hasChildAtRes(cell, arg.childRes) => ret = TraverseOk(<<>>)
       /\ (_hasChildAtRes(cell, arg.childRes) /\ cell # H3_NULL) => Len(ret.out) >= 1

\* C17 witness: Ok and no cell for a valid parent of resolution 15 and
\* childRes = 16, for which cellToChildrenSize reports ResDomain.
C17_witness_empty_list_past_15 ==
    /\ op = "cellToChildren"
    /\ isValidCell(cell) /\ getResolution(cell) = MAX_H3_RES
    /\ arg.childRes = MAX_H3_RES + 1
    /\ ret = TraverseOk(<<>>)
    /\ cellToChildrenSize(cell, arg.childRes) = {SizeErr("ResDomain")}

\* C18: for every valid cell h and every r with getResolution(h) <= r <= 15,
\* the children iterator of (h, r) yields exactly cellToChildrenSize(h, r)
\* cells, 7^n for a hexagon and 1 + 5 * (7^n - 1) / 6 for a pentagon, and
\* then is exhausted: every further call of next yields nothing. Every cell
\* yielded is a valid cell of resolution r, and cellToChildren returns a list
\* of that length.
C18_iterator_count ==
    /\ (op = "iter" /\ isValidCell(cell) /\ _hasChildAtRes(cell, arg.childRes))
       => \A s \in cellToChildrenSize(cell, arg.childRes) :
            /\ s.ok
            /\ ret.count <= s.size
            /\ (ret.it = _null_iter) <=> (ret.count = s.size)
            /\ ret.idle > 0 => (~ret.some /\ ret.it = _null_iter)
            /\ ret.it = _null_iter
               => IsChildrenCount(ret.count, isPentagon(cell),
                                  arg.childRes - getResolution(cell))
            /\ ret.some => (isValidCell(ret.item)
                            /\ getResolution(ret.item) = arg.childRes)
    /\ (op = "cellToChildren" /\ isValidCell(cell)
        /\ _hasChildAtRes(cell, arg.childRes))
       => cellToChildrenSize(cell, arg.childRes) = {SizeOk(Len(ret.out))}

\* C18 witness: the iterator of a pentagon of resolution 13 and child
\* resolution 15 yielded 41 cells, and then nothing, twice.
C18_witness_pentagon_exhausted ==
    /\ op = "iter"
    /\ isValidCell(cell) /\ isPentagon(cell) /\ getResolution(cell) = 13
    /\ arg.childRes = 15
    /\ ret.count = 41 /\ ret.idle = MaxIdleSteps /\ ~ret.some

\* C18 as stated, for every r up to 15: beside the above, the number of
\* cells the iterator yields, which is at least 1 (the first child), is what
\* cellToChildrenSize(h, r) returns.
C18_count_is_size_for_every_r ==
    /\ C18_iterator_count
    /\ (op = "cellToChildrenSize" /\ isValidCell(cell)
        /\ _hasChildAtRes(cell, arg.childRes))
       => (ret.ok /\ ret.size >= 1)

C21_res0_cells ==
    /\ op = "getRes0Cells" =>
        /\ ret.ok /\ Len(ret.out) = res0CellCount /\ res0CellCount = 122
        /\ \A i \in 0..121 :
            ret.out[i + 1] = [hb |-> 0, mode |-> 1, rsv |-> 0, res |-> 0, bc |-> i,
                              dig |-> [r \in 1..15 |-> 7]]
        /\ H3Hex(ret.out[1]) = <<0, 8, 0, 0, 1, 15, 15, 15, 15, 15, 15, 15, 15, 15, 15, 15>>
        /\ H3Hex(ret.out[122]) = <<0, 8, 0, 15, 3, 15, 15, 15, 15, 15, 15, 15, 15, 15, 15, 15>>
        /\ \A i \in 1..122 : isValidCell(ret.out[i])
        /\ Cardinality({i \in 1..122 : isPentagon(ret.out[i])}) = 12
        /\ Cardinality({i \in 1..122 : ~isPentagon(ret.out[i])}) = 110
    /\ op = "element" =>
        /\ ret.valid
        /\ ret.out = getRes0Cells
        /\ ret.pentagon <=> _isBaseCellPentagon(arg.i)

\* C21 witness: the last element of the returned list, the cell of base cell
\* 121, was tested: it is valid and no pentagon.
C21_witness_last_element ==
    /\ op = "element" /\ arg.i = 121
    /\ H3_GET_BASE_CELL(cell) = 121 /\ ret.valid /\ ~ret.pentagon

\* h with the resolution r and the digits s at the positions
\* getResolution(h) + 1 .. r.
Descendant(h, r, s) ==
    [h EXCEPT !.res = r,
              !.dig = [p \in 1..MAX_H3_RES |->
                          IF p > h.res /\ p <= r THEN s[p - h.res] ELSE h.dig[p]]]

\* The valid cells of resolution r that agree with h on the base cell and on
\* the digits 1 .. getResolution(h).
ValidDescendants(h, r) ==
    {c \in {Descendant(h, r, s) : s \in DigitStrings(r - getResolution(h))} :
        isValidCell(c)}

IsChildrenList(h, r, out) ==
    /\ {out[i] : i \in 1..Len(out)} = ValidDescendants(h, r)
    /\ \A i \in 1..(Len(out) - 1) : H3Less(out[i], out[i + 1])
    /\ \A i, j \in 1..Len(out) : i # j => out[i] # out[j]
    /\ isPentagon(h) =>
         \A i \in 1..Len(out) : _h3LeadingNonZeroDigit(out[i]) # KAxesDigit

\* C22: for every valid cell h and every r with getResolution(h) <= r <= 15,
\* cellToChildren(h, r) returns exactly the valid cells of resolution r that
\* agree with h on the base cell and on the digits 1..getResolution(h), without
\* duplicates and in strictly increasing order of the 64-bit index; no child
\* of a pentagon has K as its first non-zero digit.
C22_children_set_and_order ==
    (op = "cellToChildren" /\ isValidCell(cell)
     /\ _hasChildAtRes(cell, arg.childRes))
    => (ret.ok /\ IsChildrenList(cell, arg.childRes, ret.out))

\* C22 witness: the 41 children two resolutions below a pentagon of
\* resolution 1, the last of them with the digits 6, 6.
C22_witness_pentagon_grandchildren ==
    /\ op = "cellToChildren"
    /\ isValidCell(cell) /\ isPentagon(cell) /\ getResolution(cell) = 1
    /\ arg.childRes = 3
    /\ ret.ok /\ Len(ret.out) = 41
    /\ H3_GET_INDEX_DIGIT(ret.out[41], 2) = IJAxesDigit
    /\ H3_GET_INDEX_DIGIT(ret.out[41], 3) = IJAxesDigit

\* The digits 1 .. resolution of h are all in 0..6.
DigitsInRange(h) ==
    \A r \in 1..H3_GET_RESOLUTION(h) : H3_GET_INDEX_DIGIT(h, r) \in 0..(NUM_DIGITS - 1)

\* C23: for every index h of resolution r in 1..15 whose digits 1..r are all
\* in 0..6, the leading non-zero digit of _h3RotatePent60ccw(h) is never K,
\* and the same holds for _h3RotatePent60cw(h); both leave the mode, the
\* resolution, the base cell and the digits r+1..15 unchanged, and map an
\* all-zero digit string to itself.
C23_pentagon_rotation_has_no_leading_K ==
    (op \in {"_h3RotatePent60ccw", "_h3RotatePent60cw"}
     /\ H3_GET_RESOLUTION(cell) \in 1..MAX_H3_RES /\ DigitsInRange(cell))
    => /\ _h3LeadingNonZeroDigit(ret.h) # KAxesDigit
       /\ H3_GET_MODE(ret.h) = H3_GET_MODE(cell)
       /\ H3_GET_RESOLUTION(ret.h) = H3_GET_RESOLUTION(cell)
       /\ H3_GET_BASE_CELL(ret.h) = H3_GET_BASE_CELL(cell)
       /\ \A r \in (H3_GET_RESOLUTION(cell) + 1)..MAX_H3_RES :
            H3_GET_INDEX_DIGIT(ret.h, r) = H3_GET_INDEX_DIGIT(cell, r)
       /\ _h3LeadingNonZeroDigit(cell) = CenterDigit => ret.h = cell

\* C23 witness: the first non-zero digit JK, at position 14 of a resolution
\* 15 index, which one counter-clockwise rotation turns into K: the result
\* has IK there, and the digit after it was rotated twice as well.
C23_witness_rotated_twice ==
    /\ op = "_h3RotatePent60ccw"
    /\ H3_GET_RESOLUTION(cell) = MAX_H3_RES
    /\ \A r \in 1..13 : H3_GET_INDEX_DIGIT(cell, r) = CenterDigit
    /\ H3_GET_INDEX_DIGIT(cell, 14) = JKAxesDigit
    /\ H3_GET_INDEX_DIGIT(cell, 15) = JKAxesDigit
    /\ H3_GET_INDEX_DIGIT(ret.h, 14) = IKAxesDigit
    /\ H3_GET_INDEX_DIGIT(ret.h, 15) = IKAxesDigit

\* C24: for every valid origin cell, every direction 1..6 and every incoming
\* rotation count 0..5, whenever h3NeighborRotations moves from a base cell
\* into a different pentagon base cell and the new index has the leading
\* non-zero digit K, _baseCellIsCwOffset(new base cell, home face of the old
\* base cell) is true, so that the counter-clockwise branch is never taken;
\* and the branch that returns Failed for an old leading digit other than C,
\* JK or IK is never taken.
C24_unreachable_branches ==
    (op = "h3NeighborRotations" /\ isValidCell(cell)
     /\ arg.dir \in KAxesDigit..IJAxesDigit /\ arg.rotations \in 0..5)
    => /\ ret.branch \notin {"ccw", "never"}
       /\ ret.err # "Failed"
       /\ ret.branch = "cw" =>
            /\ ret.ok
            /\ H3_GET_BASE_CELL(ret.h) # H3_GET_BASE_CELL(cell)
            /\ _isBaseCellPentagon(H3_GET_BASE_CELL(ret.h))
            /\ _baseCellIsCwOffset(H3_GET_BASE_CELL(ret.h),
                                   homeFace(H3_GET_BASE_CELL(cell)))

\* C24 witness: a step from another base cell into the deleted sub-sequence
\* of a pentagon base cell whose second clockwise offset face is the home
\* face of the old base cell; the index was rotated clockwise.
C24_witness_second_offset_face ==
    /\ op = "h3NeighborRotations" /\ isValidCell(cell)
    /\ arg.dir \in KAxesDigit..IJAxesDigit
    /\ ret.ok /\ ret.branch = "cw"
    /\ H3_GET_BASE_CELL(ret.h) # H3_GET_BASE_CELL(cell)
    /\ baseCellData[H3_GET_BASE_CELL(ret.h) + 1][7] = homeFace(H3_GET_BASE_CELL(cell))
    /\ baseCellData[H3_GET_BASE_CELL(ret.h) + 1][6] # homeFace(H3_GET_BASE_CELL(cell))

\* The ijk left after res aperture 7 parent steps, from the digit res up to
\* the digit 1.
RECURSIVE Peeled(_, _)
Peeled(coord, res) ==
    IF Evaluated(coord) /\ res = 0 THEN coord
    ELSE Peeled(IF isResolutionClassIII(res) THEN _upAp7(coord) ELSE _upAp7r(coord),
                res - 1)

\* The result h of _faceIjkToH3 is H3_NULL exactly when the base-level ijk
\* has a component greater than 2, and a valid cell of the resolution
\* otherwise.
NullIffPastFace(h, coord, res) ==
    /\ (h = H3_NULL) <=> PastMaxFaceCoord(Peeled(coord, res))
    /\ h # H3_NULL => (getResolution(h) = res /\ isValidCell(h))

\* C25 as stated, for every non-negative ijk of i32 components: every call
\* returns, and returns H3_NULL exactly when the base-level ijk has a
\* component greater than 2, and a valid cell of that resolution otherwise.
C25_null_iff_past_face_for_every_ijk ==
    op = "_faceIjkToH3" =>
        (~ret.panic /\ NullIffPastFace(ret.h, arg.fijk.coord, arg.res))

\* C25, what holds: every call that returns (in a build without overflow
\* checks, or when nothing overflows) returns H3_NULL exactly when the
\* base-level ijk has a component greater than 2, and a valid cell of that
\* resolution otherwise; no call panics whose components are all at most
\* 2147483647 / 3 - 1 = 715827881, and the calls that panic are calls that
\* a build without overflow checks answers with H3_NULL.
C25_null_iff_past_face ==
    op = "_faceIjkToH3" =>
        IF ret.panic
        THEN /\ PastMaxFaceCoord(Peeled(arg.fijk.coord, arg.res))
             /\ \E c \in {arg.fijk.coord.i, arg.fijk.coord.j, arg.fijk.coord.k} :
                    c >= MaxI32 \div 3
        ELSE NullIffPastFace(ret.h, arg.fijk.coord, arg.res)

\* C25 witness: the coordinate (2147483647, 0, 0) at resolution 1: the center
\* child of its parent is not representable, and the build without overflow
\* checks returned H3_NULL.
C25_witness_wrapped_extreme ==
    /\ op = "_faceIjkToH3"
    /\ arg.fijk.coord = CoordIJK(MaxI32, 0, 0) /\ arg.res = 1
    /\ _downAp7Overflows(_upAp7(arg.fijk.coord))
    /\ ~ret.panic /\ ret.h = H3_NULL

\* C26: for every valid cell origin, every direction 0..6 and every incoming
\* rotation count 0..5, if h3NeighborRotations returns Ok(c) then c passes
\* isValidCell and has the mode, the reserved bits and the resolution of
\* origin, and the rotation count left in *rotations is in 0..5 again; for the
\* direction C the result is origin itself and the count is unchanged.
C26_neighbor_is_valid_cell ==
    (op = "h3NeighborRotations" /\ isValidCell(cell)
     /\ arg.dir \in CenterDigit..IJAxesDigit /\ arg.rotations \in 0..5)
    => /\ ret.ok =>
            /\ isValidCell(ret.h)
            /\ H3_GET_MODE(ret.h) = H3_GET_MODE(cell)
            /\ H3_GET_RESERVED_BITS(ret.h) = H3_GET_RESERVED_BITS(cell)
            /\ H3_GET_RESOLUTION(ret.h) = H3_GET_RESOLUTION(cell)
            /\ ret.rotations \in 0..5
       /\ arg.dir = CenterDigit =>
            (ret.ok /\ ret.h = cell /\ ret.rotations = arg.rotations)

\* C26 witness: a step with the rotation count 5 from a hexagon base cell
\* other than 8 and 118 into a polar pentagon base cell, which adds 1 to the
\* count: the result is a valid cell and the count is in 0..5.
C26_witness_into_polar_pentagon ==
    /\ op = "h3NeighborRotations" /\ isValidCell(cell)
    /\ arg.rotations = 5 /\ ret.ok
    /\ H3_GET_BASE_CELL(cell) \notin {8, 118}
    /\ ~_isBaseCellPentagon(H3_GET_BASE_CELL(cell))
    /\ _isBaseCellPolarPentagon(H3_GET_BASE_CELL(ret.h))
    /\ _h3LeadingNonZeroDigit(ret.h) = IKAxesDigit
    /\ isValidCell(ret.h) /\ ret.rotations \in 0..5

\* C27: the digit tables agree with the ijk arithmetic that decodes indexes:
\* for every digit d and direction dir in 0..6 the normalized sum of their unit
\* vectors is the hex that NEW_ADJUSTMENT_II / NEW_DIGIT_II name through
\* _downAp7 and the hex that NEW_ADJUSTMENT_III / NEW_DIGIT_III name through
\* _downAp7r; and h3NeighborRotations, which uses the II tables at the odd
\* digit positions and the III tables at the even ones, moves the ijk that
\* _h3ToFaceIjk decodes (with _downAp7 at the odd positions and _downAp7r at
\* the even ones) by the unit vector of the direction.
C27_tables_agree_with_lattice ==
    /\ op = "tables" => (ret.sum = ret.classII /\ ret.sum = ret.classIII)
    /\ (op = "step" /\ ret.n.ok
        /\ H3_GET_BASE_CELL(ret.n.h) = H3_GET_BASE_CELL(cell))
       => ret.to = _ijkNormalize(_ijkAdd(ret.from, UNIT_VECS[arg.dir + 1]))

\* C27 witness: a step from a cell of resolution 3 that changed all three
\* digits, by a carry through Class III and Class II positions, within the
\* base cell.
C27_witness_carry_through_both_classes ==
    /\ op = "step" /\ ret.n.ok /\ getResolution(cell) = 3
    /\ H3_GET_BASE_CELL(ret.n.h) = H3_GET_BASE_CELL(cell)
    /\ H3_GET_INDEX_DIGIT(ret.n.h, 3) # H3_GET_INDEX_DIGIT(cell, 3)
    /\ H3_GET_INDEX_DIGIT(ret.n.h, 2) # H3_GET_INDEX_DIGIT(cell, 2)
    /\ H3_GET_INDEX_DIGIT(ret.n.h, 1) # H3_GET_INDEX_DIGIT(cell, 1)
    /\ ret.to = _ijkNormalize(_ijkAdd(ret.from, UNIT_VECS[arg.dir + 1]))

\* A face of the icosahedron with a normalized non-negative ijk.
IsNormalizedFijk(fijk) ==
    /\ fijk.face \in 0..(NUM_ICOSA_FACES - 1)
    /\ fijk.coord.i >= 0 /\ fijk.coord.j >= 0 /\ fijk.coord.k >= 0
    /\ (fijk.coord.i = 0 \/ fijk.coord.j = 0 \/ fijk.coord.k = 0)

\* C28: for every valid cell h of resolution r, _h3ToFaceIjk(h) returns
\* Ok(fijk) with a face in 0..19 and a normalized non-negative ijk, and
\* _faceIjkToH3(fijk, r) = h; this includes the cells of pentagon base cells
\* and the cells whose coordinates the overage adjustment moved to a
\* neighboring face.
C28_face_ijk_round_trip ==
    /\ (op = "_h3ToFaceIjk" /\ isValidCell(cell))
       => (ret.ok /\ IsNormalizedFijk(ret.fijk))
    /\ (op = "_faceIjkToH3" /\ isValidCell(cell))
       => (~ret.panic /\ ret.h = cell)

\* C28 witness: a cell of a pentagon base cell, of resolution 15, that lies
\* on another face than the home face of its base cell, was converted back
\* into itself.
C28_witness_pentagon_cell_on_other_face ==
    /\ op = "_faceIjkToH3" /\ isValidCell(cell)
    /\ _isBaseCellPentagon(H3_GET_BASE_CELL(cell))
    /\ getResolution(cell) = MAX_H3_RES
    /\ _h3LeadingNonZeroDigit(cell) = IAxesDigit
    /\ arg.fijk.face # homeFace(H3_GET_BASE_CELL(cell))
    /\ ~ret.panic /\ ret.h = cell

\* The recursive hash set algorithm alone: _gridDiskDistancesInternal started
\* at origin with distance 0 on an empty set of maxIdx slots, zero slots
\* dropped.
FallbackDisk(origin, k, maxIdx) ==
    DiskFromFallback(_gridDiskDistancesInternal(origin, k,
        [err |-> "", hung |-> FALSE, depth |-> 0,
         out |-> [s \in 1..maxIdx |-> <<H3_NULL, 0>>]],
        maxIdx, 0))

\* The list fast holds each cell once, and the same (cell, distance) pairs
\* as the completed fallback slow.
SamePairs(fast, slow) ==
    /\ slow.ok
    /\ \A i, j \in 1..Len(fast) : fast[i][1] = fast[j][1] => i = j
    /\ {fast[i] : i \in 1..Len(fast)} = {slow.out[i] : i \in 1..Len(slow.out)}

\* C29: the fast and the safe disk algorithms agree: for every valid origin
\* and k for which gridDiskDistancesUnsafe(origin, k) returns Ok, the set of
\* (cell, distance) pairs it returns equals the set that the recursive hash
\* set fallback produces for the same origin and k, and it holds each cell
\* once.
C29_fast_and_safe_disk_agree ==
    (op = "gridDiskDistancesUnsafe" /\ isValidCell(cell) /\ ret.ok)
    => SamePairs(ret.out, FallbackDisk(cell, arg.k, maxGridDiskSize(arg.k)))

\* C29 witness: the fast path returned the full disk of radius 2 of a cell of
\* a pentagon base cell, 19 cells with distances 0, 1 and 2, and the fallback
\* produces the same pairs.
C29_witness_full_disk_next_to_pentagon ==
    /\ op = "gridDiskDistancesUnsafe" /\ isValidCell(cell) /\ ret.ok
    /\ arg.k = 2
    /\ _isBaseCellPentagon(H3_GET_BASE_CELL(cell))
    /\ Len(ret.out) = 19
    /\ \E i, j \in 1..Len(ret.out) : ret.out[i][2] = 1 /\ ret.out[j][2] = 2
    /\ SamePairs(ret.out, FallbackDisk(cell, arg.k, maxGridDiskSize(arg.k)))

\* The cells held by the hash set out.
InsertedCells(out) == {out[s][1] : s \in 1..Len(out)} \ {H3_NULL}

\* No cell is in two slots of the hash set out.
EachCellOnce(out) ==
    \A s, t \in 1..Len(out) : (out[s][1] # H3_NULL /\ out[s][1] = out[t][1]) => s = t

\* While _gridDiskDistancesInternal runs: the set holds each cell once and
\* at most maxGridDiskSize(k) cells; the call that runs was entered with a
\* distance <= k, one frame per distance below it; and while the probe loop
\* runs, some slot is free or holds the cell of the call.
FallbackWithinResources ==
    op \in {"while", "for"}
    => /\ EachCellOnce(ret.out)
       /\ Cardinality(InsertedCells(ret.out)) <= maxGridDiskSize(arg.k)
       /\ TopFrame.curK <= arg.k
       /\ \A d \in 1..Len(ret.stack) : ret.stack[d].curK = d - 1
       /\ op = "while"
          => \E s \in 1..Len(ret.out) :
                ret.out[s][1] = H3_NULL \/ ret.out[s][1] = TopFrame.origin

\* C30: the fallback of gridDiskDistances terminates for a valid origin: in
\* _gridDiskDistancesInternal the number of distinct cells in the hash set
\* never exceeds its capacity maxGridDiskSize(k), the probe loop always
\* reaches a free slot or the slot holding the cell, the recursion depth
\* never exceeds k, and the first call returns Ok.
C30_fallback_terminates ==
    /\ [](isValidCell(cell) => FallbackWithinResources)
    /\ (op = "init" /\ isValidCell(cell)) ~> (op = "done" /\ ret.err = "")

\* C30 witness: the fallback returned for k = 2 with every slot of the hash
\* set taken: 19 distinct cells.
C30_witness_full_set ==
    /\ op = "done" /\ isValidCell(cell) /\ ret.err = ""
    /\ arg.k = 2
    /\ Cardinality(InsertedCells(ret.out)) = maxGridDiskSize(arg.k)
====
